---- MODULE Spec2Model ----
(***************************************************************************)
(* Model of the portfolio site: the SEO formatters (meta tags, sitemap,    *)
(* robots directives, structured data), the configuration resolver, the    *)
(* cache headers middleware and the application (specification Spec), and  *)
(* the parts with state of their own, each under its own specification.    *)
(*                                                                         *)
(* A JavaScript string is a sequence of one-character strings (UTF-16 code *)
(* units), so that escaping, truncation, joining and the search for a tag  *)
(* in the emitted markup are computed character by character.  An optional *)
(* field (x?: T) is a sequence of length 0 (undefined) or 1 (the value).   *)
(***************************************************************************)
EXTENDS Integers, Sequences, FiniteSets, TLC

\* one call of a formatter: its position, its name, its argument and the value returned
VARIABLES pc, fn, input, output

\* the parts with state of their own: the objects of the configuration module and the
\* configurations handed out, and, in the browser, the analytics tracker, a counter
\* element, the theme toggle and the typewriter
VARIABLES heap, tracker, counter, theme, typewriter

formatterVars == <<pc, fn, input, output>>

statefulVars == <<heap, tracker, counter, theme, typewriter>>

vars == <<pc, fn, input, output, heap, tracker, counter, theme, typewriter>>

\* the value of a variable of a part that the specification at hand leaves out
NotInUse == "not in use"

(***************************************************************************)
(* Bounds of the model.                                                    *)
(***************************************************************************)
\* Longest string of the exhaustively enumerated texts.
MaxTextLen == 1
\* How far past the truncation limit the enumerated descriptions reach.
MaxOver == 2
\* Longest keyword list.
MaxKeywords == 2
\* Longest list of sitemap entries.
MaxUrls == 2
\* Longest list of experience, project or education records of several elements.
MaxRecords == 2
\* Longest description, and largest maxLength, of the direct calls of truncateDescription.
MaxShortLen == 6
\* Most configurations handed out, and most changes made through them.
MaxConfigs == 2
MaxChanges == 2
\* initializations of the analytics of one page, and gtag events recorded
MaxInits == 2
MaxEvents == 2
\* entries delivered by one intersection-observer callback
MaxEntries == 2
\* theme-button clicks and page reloads followed
MaxSteps == 5
\* the largest data-count of a counter element, and animations started on one element
MaxTarget == 51
MaxStarts == 2

(***************************************************************************)
(* Strings, optional values, and the JavaScript built-ins the code uses.   *)
(***************************************************************************)
Absent == << >>

Some(v) == <<v>>

Truthy_definedOnly(opt) == opt # Absent

\* if (x) on an optional string: undefined and "" are both falsy.
Truthy(opt) == opt # Absent /\ Len(opt[1]) > 0

\* the concatenation parts[lo] \o ... \o parts[hi], by halves
RECURSIVE ConcatRange(_, _, _)
ConcatRange(parts, lo, hi) ==
  IF lo > hi THEN << >>
  ELSE IF lo = hi THEN parts[lo]
  ELSE LET mid == (lo + hi) \div 2
       IN  ConcatRange(parts, lo, mid) \o ConcatRange(parts, mid + 1, hi)

Concat(parts) == ConcatRange(parts, 1, Len(parts))

\* Array.prototype.join
Join(parts, sep) ==
  Concat([i \in 1..(2 * Len(parts) - 1) |->
            IF i % 2 = 1 THEN parts[(i + 1) \div 2] ELSE sep])

\* String.prototype.substring(0, n); a negative n counts as 0
Substring0(s, n) == SubSeq(s, 1, IF n < Len(s) THEN n ELSE Len(s))

\* String.prototype.replace(/c/g, by) for a one-character pattern c
ReplaceAll(s, c, by) ==
  Concat([i \in 1..Len(s) |-> IF s[i] = c THEN by ELSE <<s[i]>>])

(***************************************************************************)
(* The meta tag formatter, src/src/seo/meta-tags.ts                        *)
(***************************************************************************)
\* maxLength: number = 160
DefaultMaxLength == 160

Ellipsis == <<".",".",".">>

truncateDescription_strict(description, maxLength) ==
  IF Len(description) < maxLength THEN description
  ELSE Substring0(description, maxLength - 3) \o Ellipsis

truncateDescription(description, maxLength) ==
  IF Len(description) <= maxLength THEN description
  ELSE Substring0(description, maxLength - 3) \o Ellipsis

htmlEscapeMap_noApos(char) ==
  CASE char = "&" -> <<"&","a","m","p",";">>
    [] char = "<" -> <<"&","l","t",";">>
    [] char = ">" -> <<"&","g","t",";">>
    [] char = "\"" -> <<"&","q","u","o","t",";">>
    [] OTHER -> <<char>>

\* the map of escapeHtml, applied by the replace callback to one matched character
htmlEscapeMap(char) ==
  CASE char = "&" -> <<"&","a","m","p",";">>
    [] char = "<" -> <<"&","l","t",";">>
    [] char = ">" -> <<"&","g","t",";">>
    [] char = "\"" -> <<"&","q","u","o","t",";">>
    [] char = "'" -> <<"&","#","0","3","9",";">>
    [] OTHER -> <<char>>

\* text.replace(/[&<>"']/g, (char) => map[char]): one pass over the text
escapeHtml(text) == Concat([i \in 1..Len(text) |-> htmlEscapeMap(text[i])])

NewLine == <<"\n">>

CommaSpace == <<","," ">>

\* the fixed parts of the template literals
AttrClose == <<"\"",">">>

CharsetTag == <<"<","m","e","t","a"," ","c","h","a","r","s","e","t","=","\"","U","T","F","-",
                "8","\"",">">>

ViewportTag == <<"<","m","e","t","a"," ","n","a","m","e","=","\"","v","i","e","w","p","o","r",
                 "t","\""," ","c","o","n","t","e","n","t","=","\"","w","i","d","t","h","=","d",
                 "e","v","i","c","e","-","w","i","d","t","h",","," ","i","n","i","t","i","a",
                 "l","-","s","c","a","l","e","=","1",".","0","\"",">">>

TitleOpen == <<"<","t","i","t","l","e",">">>

TitleClose == <<"<","/","t","i","t","l","e",">">>

DescriptionOpen == <<"<","m","e","t","a"," ","n","a","m","e","=","\"","d","e","s","c","r","i",
                     "p","t","i","o","n","\""," ","c","o","n","t","e","n","t","=","\"">>

KeywordsOpen == <<"<","m","e","t","a"," ","n","a","m","e","=","\"","k","e","y","w","o","r","d",
                  "s","\""," ","c","o","n","t","e","n","t","=","\"">>

AuthorOpen == <<"<","m","e","t","a"," ","n","a","m","e","=","\"","a","u","t","h","o","r","\"",
                " ","c","o","n","t","e","n","t","=","\"">>

CanonicalOpen == <<"<","l","i","n","k"," ","r","e","l","=","\"","c","a","n","o","n","i","c","a",
                   "l","\""," ","h","r","e","f","=","\"">>

OgTitleOpen == <<"<","m","e","t","a"," ","p","r","o","p","e","r","t","y","=","\"","o","g",":",
                 "t","i","t","l","e","\""," ","c","o","n","t","e","n","t","=","\"">>

OgDescriptionOpen == <<"<","m","e","t","a"," ","p","r","o","p","e","r","t","y","=","\"","o","g",
                       ":","d","e","s","c","r","i","p","t","i","o","n","\""," ","c","o","n","t",
                       "e","n","t","=","\"">>

OgImageOpen == <<"<","m","e","t","a"," ","p","r","o","p","e","r","t","y","=","\"","o","g",":",
                 "i","m","a","g","e","\""," ","c","o","n","t","e","n","t","=","\"">>

OgTypeOpen == <<"<","m","e","t","a"," ","p","r","o","p","e","r","t","y","=","\"","o","g",":",
                "t","y","p","e","\""," ","c","o","n","t","e","n","t","=","\"">>

OgUrlOpen == <<"<","m","e","t","a"," ","p","r","o","p","e","r","t","y","=","\"","o","g",":","u",
               "r","l","\""," ","c","o","n","t","e","n","t","=","\"">>

OgSiteNameOpen == <<"<","m","e","t","a"," ","p","r","o","p","e","r","t","y","=","\"","o","g",
                    ":","s","i","t","e","_","n","a","m","e","\""," ","c","o","n","t","e","n",
                    "t","=","\"">>

TwitterCardOpen == <<"<","m","e","t","a"," ","n","a","m","e","=","\"","t","w","i","t","t","e",
                     "r",":","c","a","r","d","\""," ","c","o","n","t","e","n","t","=","\"">>

TwitterTitleOpen == <<"<","m","e","t","a"," ","n","a","m","e","=","\"","t","w","i","t","t","e",
                      "r",":","t","i","t","l","e","\""," ","c","o","n","t","e","n","t","=","\"">>

TwitterDescriptionOpen == <<"<","m","e","t","a"," ","n","a","m","e","=","\"","t","w","i","t",
                            "t","e","r",":","d","e","s","c","r","i","p","t","i","o","n","\"",
                            " ","c","o","n","t","e","n","t","=","\"">>

TwitterImageOpen == <<"<","m","e","t","a"," ","n","a","m","e","=","\"","t","w","i","t","t","e",
                      "r",":","i","m","a","g","e","\""," ","c","o","n","t","e","n","t","=","\"">>

TwitterSiteOpen == <<"<","m","e","t","a"," ","n","a","m","e","=","\"","t","w","i","t","t","e",
                     "r",":","s","i","t","e","\""," ","c","o","n","t","e","n","t","=","\"">>

TwitterCreatorOpen == <<"<","m","e","t","a"," ","n","a","m","e","=","\"","t","w","i","t","t",
                        "e","r",":","c","r","e","a","t","o","r","\""," ","c","o","n","t","e",
                        "n","t","=","\"">>

generateBasicMetaTags_rawTitle(config) ==
  LET description == truncateDescription(config.description, DefaultMaxLength)
      tags4 == << CharsetTag,
                  ViewportTag,
                  TitleOpen \o config.title \o TitleClose,
                  DescriptionOpen \o escapeHtml(description) \o AttrClose >>
      tags5 == IF config.keywords # Absent /\ Len(config.keywords[1]) > 0
               THEN LET keywordsStr == Join(config.keywords[1], CommaSpace)
                    IN  Append(tags4, KeywordsOpen \o escapeHtml(keywordsStr) \o AttrClose)
               ELSE tags4
      tags6 == IF Truthy(config.author)
               THEN Append(tags5, AuthorOpen \o escapeHtml(config.author[1]) \o AttrClose)
               ELSE tags5
      tags  == Append(tags6, CanonicalOpen \o escapeHtml(config.canonicalUrl) \o AttrClose)
  IN  Join(tags, NewLine)

generateBasicMetaTags(config) ==
  LET description == truncateDescription(config.description, DefaultMaxLength)
      tags4 == << CharsetTag,
                  ViewportTag,
                  TitleOpen \o escapeHtml(config.title) \o TitleClose,
                  DescriptionOpen \o escapeHtml(description) \o AttrClose >>
      tags5 == IF config.keywords # Absent /\ Len(config.keywords[1]) > 0
               THEN LET keywordsStr == Join(config.keywords[1], CommaSpace)
                    IN  Append(tags4, KeywordsOpen \o escapeHtml(keywordsStr) \o AttrClose)
               ELSE tags4
      tags6 == IF Truthy(config.author)
               THEN Append(tags5, AuthorOpen \o escapeHtml(config.author[1]) \o AttrClose)
               ELSE tags5
      tags  == Append(tags6, CanonicalOpen \o escapeHtml(config.canonicalUrl) \o AttrClose)
  IN  Join(tags, NewLine)

generateOpenGraphTags_siteNameAlways(config) ==
  LET tags5 == << OgTitleOpen \o escapeHtml(config.ogTitle) \o AttrClose,
                  OgDescriptionOpen \o escapeHtml(config.ogDescription) \o AttrClose,
                  OgImageOpen \o escapeHtml(config.ogImage) \o AttrClose,
                  OgTypeOpen \o escapeHtml(config.ogType) \o AttrClose,
                  OgUrlOpen \o escapeHtml(config.ogUrl) \o AttrClose >>
      tags == IF config.ogSiteName # Absent
              THEN Append(tags5, OgSiteNameOpen \o escapeHtml(config.ogSiteName[1]) \o AttrClose)
              ELSE tags5
  IN  Join(tags, NewLine)

generateOpenGraphTags(config) ==
  LET tags5 == << OgTitleOpen \o escapeHtml(config.ogTitle) \o AttrClose,
                  OgDescriptionOpen \o escapeHtml(config.ogDescription) \o AttrClose,
                  OgImageOpen \o escapeHtml(config.ogImage) \o AttrClose,
                  OgTypeOpen \o escapeHtml(config.ogType) \o AttrClose,
                  OgUrlOpen \o escapeHtml(config.ogUrl) \o AttrClose >>
      tags == IF Truthy(config.ogSiteName)
              THEN Append(tags5, OgSiteNameOpen \o escapeHtml(config.ogSiteName[1]) \o AttrClose)
              ELSE tags5
  IN  Join(tags, NewLine)

generateTwitterCardTags_nested(config) ==
  LET tags4 == << TwitterCardOpen \o escapeHtml(config.twitterCard) \o AttrClose,
                  TwitterTitleOpen \o escapeHtml(config.twitterTitle) \o AttrClose,
                  TwitterDescriptionOpen \o escapeHtml(config.twitterDescription) \o AttrClose,
                  TwitterImageOpen \o escapeHtml(config.twitterImage) \o AttrClose >>
      tags5 == IF Truthy(config.twitterSite)
               THEN Append(tags4, TwitterSiteOpen \o escapeHtml(config.twitterSite[1]) \o AttrClose)
               ELSE tags4
      tags == IF Truthy(config.twitterSite) /\ Truthy(config.twitterCreator)
              THEN Append(tags5, TwitterCreatorOpen \o escapeHtml(config.twitterCreator[1]) \o AttrClose)
              ELSE tags5
  IN  Join(tags, NewLine)

generateTwitterCardTags(config) ==
  LET tags4 == << TwitterCardOpen \o escapeHtml(config.twitterCard) \o AttrClose,
                  TwitterTitleOpen \o escapeHtml(config.twitterTitle) \o AttrClose,
                  TwitterDescriptionOpen \o escapeHtml(config.twitterDescription) \o AttrClose,
                  TwitterImageOpen \o escapeHtml(config.twitterImage) \o AttrClose >>
      tags5 == IF Truthy(config.twitterSite)
               THEN Append(tags4, TwitterSiteOpen \o escapeHtml(config.twitterSite[1]) \o AttrClose)
               ELSE tags4
      tags == IF Truthy(config.twitterCreator)
              THEN Append(tags5, TwitterCreatorOpen \o escapeHtml(config.twitterCreator[1]) \o AttrClose)
              ELSE tags5
  IN  Join(tags, NewLine)

(***************************************************************************)
(* The sitemap formatter, src/unnamed/part_006                             *)
(***************************************************************************)
escapeXml_ampLast(str) ==
  ReplaceAll(
    ReplaceAll(
      ReplaceAll(
        ReplaceAll(
          ReplaceAll(str, "<", <<"&","l","t",";">>),
          ">", <<"&","g","t",";">>),
        "\"", <<"&","q","u","o","t",";">>),
      "'", <<"&","a","p","o","s",";">>),
    "&", <<"&","a","m","p",";">>)

\* five replace calls in sequence, each over the result of the one before
escapeXml(str) ==
  ReplaceAll(
    ReplaceAll(
      ReplaceAll(
        ReplaceAll(
          ReplaceAll(str, "&", <<"&","a","m","p",";">>),
          "<", <<"&","l","t",";">>),
        ">", <<"&","g","t",";">>),
      "\"", <<"&","q","u","o","t",";">>),
    "'", <<"&","a","p","o","s",";">>)

DigitChars == <<"0", "1", "2", "3", "4", "5", "6", "7", "8", "9">>

RECURSIVE NatToString(_)
NatToString(n) ==
  IF n < 10 THEN <<DigitChars[n + 1]>>
  ELSE NatToString(n \div 10) \o <<DigitChars[(n % 10) + 1]>>

\* Number::toString of a priority, a number held as its count of tenths:
\* 10 is "1", 5 is "0.5", -3 is "-0.3", 15 is "1.5"
NumberToString(tenths) ==
  LET abs == IF tenths < 0 THEN -tenths ELSE tenths
  IN  (IF tenths < 0 THEN <<"-">> ELSE << >>)
      \o NatToString(abs \div 10)
      \o (IF abs % 10 = 0 THEN << >> ELSE <<".", DigitChars[(abs % 10) + 1]>>)

\* the fixed parts of the template literal of one entry
UrlLocOpen == <<" "," ","<","u","r","l",">","\n"," "," "," "," ","<","l","o","c",">">>

LocCloseLastmodOpen == <<"<","/","l","o","c",">","\n"," "," "," "," ","<","l","a","s","t","m",
                         "o","d",">">>

LastmodCloseChangefreqOpen == <<"<","/","l","a","s","t","m","o","d",">","\n"," "," "," "," ",
                                "<","c","h","a","n","g","e","f","r","e","q",">">>

ChangefreqClosePriorityOpen == <<"<","/","c","h","a","n","g","e","f","r","e","q",">","\n"," ",
                                 " "," "," ","<","p","r","i","o","r","i","t","y",">">>

PriorityCloseUrlClose == <<"<","/","p","r","i","o","r","i","t","y",">","\n"," "," ","<","/","u",
                           "r","l",">">>

\* the fixed parts of the template literal of the document
XmlDeclaration == <<"<","?","x","m","l"," ","v","e","r","s","i","o","n","=","\"","1",".","0",
                    "\""," ","e","n","c","o","d","i","n","g","=","\"","U","T","F","-","8","\"",
                    "?",">">>

UrlsetOpen == <<"<","u","r","l","s","e","t"," ","x","m","l","n","s","=","\"","h","t","t","p",
                ":","/","/","w","w","w",".","s","i","t","e","m","a","p","s",".","o","r","g","/",
                "s","c","h","e","m","a","s","/","s","i","t","e","m","a","p","/","0",".","9",
                "\"",">">>

UrlsetClose == <<"<","/","u","r","l","s","e","t",">">>

urlEntry_freqFirst(url) ==
  UrlLocOpen \o escapeXml(url.loc)
  \o LocCloseLastmodOpen \o url.changefreq
  \o LastmodCloseChangefreqOpen \o url.lastmod
  \o ChangefreqClosePriorityOpen \o NumberToString(url.priority)
  \o PriorityCloseUrlClose

urlEntry_clamped(url) ==
  UrlLocOpen \o escapeXml(url.loc)
  \o LocCloseLastmodOpen \o url.lastmod
  \o LastmodCloseChangefreqOpen \o url.changefreq
  \o ChangefreqClosePriorityOpen
  \o NumberToString(IF url.priority < 0 THEN 0 ELSE IF url.priority > 10 THEN 10 ELSE url.priority)
  \o PriorityCloseUrlClose

\* the callback of urls.map
urlEntry(url) ==
  UrlLocOpen \o escapeXml(url.loc)
  \o LocCloseLastmodOpen \o url.lastmod
  \o LastmodCloseChangefreqOpen \o url.changefreq
  \o ChangefreqClosePriorityOpen \o NumberToString(url.priority)
  \o PriorityCloseUrlClose

generateSitemap(urls) ==
  LET urlEntries == Join([i \in 1..Len(urls) |-> urlEntry(urls[i])], NewLine)
  IN  XmlDeclaration \o NewLine \o UrlsetOpen \o NewLine \o urlEntries \o NewLine \o UrlsetClose

(***************************************************************************)
(* The robots directive formatter, src/src/seo/robots.ts                   *)
(***************************************************************************)
\* the fixed part of the template literal, up to ${sitemapUrl}
RobotsHead == <<"U","s","e","r","-","a","g","e","n","t",":"," ","*","\n","A","l","l","o","w",
                ":"," ","/","\n","\n","S","i","t","e","m","a","p",":"," ">>

generateRobotsTxt_trailingNewline(sitemapUrl) == RobotsHead \o sitemapUrl \o NewLine

generateRobotsTxt_blankAfterUserAgent(sitemapUrl) ==
  <<"U","s","e","r","-","a","g","e","n","t",":"," ","*","\n","\n","A","l","l","o","w",":"," ",
    "/","\n","\n","S","i","t","e","m","a","p",":"," ">> \o sitemapUrl

generateRobotsTxt(sitemapUrl) == RobotsHead \o sitemapUrl

(***************************************************************************)
(* The structured data formatters, src/unnamed/part_008 (lines 1-253).     *)
(*                                                                         *)
(* A JavaScript value that reaches JSON.stringify is a string, an array or *)
(* an object; an object is the sequence of its properties in insertion     *)
(* order, each a pair <<key, value>>.                                      *)
(***************************************************************************)
Str(s) == [type |-> "string", value |-> s]

Arr(elements) == [type |-> "array", value |-> elements]

Obj(properties) == [type |-> "object", value |-> properties]

\* the third argument of JSON.stringify(schema, null, 2)
JsonSpace == 2

JsonGap == [i \in 1..JsonSpace |-> " "]

\* QuoteJSONString of ECMAScript, one code unit
QuoteJSONChar(char) ==
  CASE char = "\"" -> <<"\\","\"">>
    [] char = "\\" -> <<"\\","\\">>
    [] char = "\n" -> <<"\\","n">>
    [] OTHER -> <<char>>

QuoteJSONString(s) ==
  <<"\"">> \o Concat([i \in 1..Len(s) |-> QuoteJSONChar(s[i])]) \o <<"\"">>

\* SerializeJSONProperty / SerializeJSONObject / SerializeJSONArray of ECMAScript
RECURSIVE SerializeJSONProperty(_, _)
SerializeJSONProperty(v, indent) ==
  LET stepback  == indent
      inner     == indent \o JsonGap
      separator == <<",","\n">> \o inner
  IN  CASE v.type = "string" -> QuoteJSONString(v.value)
        [] v.type = "array" ->
             IF Len(v.value) = 0 THEN <<"[","]">>
             ELSE <<"[","\n">> \o inner
                  \o Join([i \in 1..Len(v.value) |-> SerializeJSONProperty(v.value[i], inner)],
                          separator)
                  \o NewLine \o stepback \o <<"]">>
        [] v.type = "object" ->
             IF Len(v.value) = 0 THEN <<"{","}">>
             ELSE <<"{","\n">> \o inner
                  \o Join([i \in 1..Len(v.value) |->
                             QuoteJSONString(v.value[i][1]) \o <<":"," ">>
                             \o SerializeJSONProperty(v.value[i][2], inner)],
                          separator)
                  \o NewLine \o stepback \o <<"}">>

JSONStringify(value) == SerializeJSONProperty(value, << >>)

SchemaOrg == <<"h","t","t","p","s",":","/","/","s","c","h","e","m","a",".","o","r","g">>

\* strings of a string[] as JSON values
StrArray(strings) == Arr([i \in 1..Len(strings) |-> Str(strings[i])])

\* if (list && list.length > 0) on an optional array
NonEmptyList(opt) == opt # Absent /\ Len(opt[1]) > 0

generatePersonSchema_sameAsSwapped(data, siteUrl) ==
  LET schema0 ==
        << <<<<"@","c","o","n","t","e","x","t">>, Str(SchemaOrg)>>,
           <<<<"@","t","y","p","e">>, Str(<<"P","e","r","s","o","n">>)>>,
           <<<<"n","a","m","e">>, Str(data.name)>>,
           <<<<"j","o","b","T","i","t","l","e">>, Str(data.jobTitle)>>,
           <<<<"u","r","l">>, Str(siteUrl)>>,
           <<<<"e","m","a","i","l">>, Str(data.email)>>,
           <<<<"t","e","l","e","p","h","o","n","e">>, Str(data.phone)>>,
           <<<<"a","d","d","r","e","s","s">>,
             Obj(<< <<<<"@","t","y","p","e">>, Str(<<"P","o","s","t","a","l","A","d","d","r","e","s","s">>)>>,
                    <<<<"a","d","d","r","e","s","s","L","o","c","a","l","i","t","y">>, Str(data.location.city)>>,
                    <<<<"a","d","d","r","e","s","s","R","e","g","i","o","n">>, Str(data.location.region)>>,
                    <<<<"a","d","d","r","e","s","s","C","o","u","n","t","r","y">>, Str(data.location.country)>> >>)>>,
           <<<<"s","a","m","e","A","s">>,
             Arr(<< Str(data.socialProfiles.linkedin), Str(data.socialProfiles.github) >>)>> >>
      schema1 == IF Truthy(data.image)
                 THEN Append(schema0, <<<<"i","m","a","g","e">>, Str(data.image[1])>>)
                 ELSE schema0
      schema  == IF Truthy(data.bio)
                 THEN Append(schema1, <<<<"d","e","s","c","r","i","p","t","i","o","n">>, Str(data.bio[1])>>)
                 ELSE schema1
  IN  JSONStringify(Obj(schema))

generatePersonSchema(data, siteUrl) ==
  LET schema0 ==
        << <<<<"@","c","o","n","t","e","x","t">>, Str(SchemaOrg)>>,
           <<<<"@","t","y","p","e">>, Str(<<"P","e","r","s","o","n">>)>>,
           <<<<"n","a","m","e">>, Str(data.name)>>,
           <<<<"j","o","b","T","i","t","l","e">>, Str(data.jobTitle)>>,
           <<<<"u","r","l">>, Str(siteUrl)>>,
           <<<<"e","m","a","i","l">>, Str(data.email)>>,
           <<<<"t","e","l","e","p","h","o","n","e">>, Str(data.phone)>>,
           <<<<"a","d","d","r","e","s","s">>,
             Obj(<< <<<<"@","t","y","p","e">>, Str(<<"P","o","s","t","a","l","A","d","d","r","e","s","s">>)>>,
                    <<<<"a","d","d","r","e","s","s","L","o","c","a","l","i","t","y">>, Str(data.location.city)>>,
                    <<<<"a","d","d","r","e","s","s","R","e","g","i","o","n">>, Str(data.location.region)>>,
                    <<<<"a","d","d","r","e","s","s","C","o","u","n","t","r","y">>, Str(data.location.country)>> >>)>>,
           <<<<"s","a","m","e","A","s">>,
             Arr(<< Str(data.socialProfiles.github), Str(data.socialProfiles.linkedin) >>)>> >>
      schema1 == IF Truthy(data.image)
                 THEN Append(schema0, <<<<"i","m","a","g","e">>, Str(data.image[1])>>)
                 ELSE schema0
      schema  == IF Truthy(data.bio)
                 THEN Append(schema1, <<<<"d","e","s","c","r","i","p","t","i","o","n">>, Str(data.bio[1])>>)
                 ELSE schema1
  IN  JSONStringify(Obj(schema))

WorkExperienceSchema_urlNeedsEndDate(exp) ==
  LET employer0 == << <<<<"@","t","y","p","e">>, Str(<<"O","r","g","a","n","i","z","a","t","i","o","n">>)>>,
                      <<<<"n","a","m","e">>, Str(exp.company)>> >>
      employer  == IF Truthy(exp.endDate) /\ Truthy(exp.companyUrl)
                   THEN Append(employer0, <<<<"u","r","l">>, Str(exp.companyUrl[1])>>)
                   ELSE employer0
      schema0 == << <<<<"@","c","o","n","t","e","x","t">>, Str(SchemaOrg)>>,
                    <<<<"@","t","y","p","e">>, Str(<<"W","o","r","k","E","x","p","e","r","i","e","n","c","e">>)>>,
                    <<<<"n","a","m","e">>, Str(exp.role)>>,
                    <<<<"d","e","s","c","r","i","p","t","i","o","n">>, Str(exp.description)>>,
                    <<<<"s","t","a","r","t","D","a","t","e">>, Str(exp.startDate)>>,
                    <<<<"e","m","p","l","o","y","e","r">>, Obj(employer)>> >>
      schema1 == IF Truthy(exp.endDate)
                 THEN Append(schema0, <<<<"e","n","d","D","a","t","e">>, Str(exp.endDate[1])>>)
                 ELSE schema0
      schema2 == IF Len(exp.location) > 0
                 THEN Append(schema1, <<<<"l","o","c","a","t","i","o","n">>, Str(exp.location)>>)
                 ELSE schema1
  IN  IF NonEmptyList(exp.skills)
      THEN Append(schema2, <<<<"s","k","i","l","l","s">>, StrArray(exp.skills[1])>>)
      ELSE schema2

\* the object built by the map callback of generateWorkExperienceSchema
WorkExperienceSchema(exp) ==
  LET employer0 == << <<<<"@","t","y","p","e">>, Str(<<"O","r","g","a","n","i","z","a","t","i","o","n">>)>>,
                      <<<<"n","a","m","e">>, Str(exp.company)>> >>
      employer  == IF Truthy(exp.companyUrl)
                   THEN Append(employer0, <<<<"u","r","l">>, Str(exp.companyUrl[1])>>)
                   ELSE employer0
      schema0 == << <<<<"@","c","o","n","t","e","x","t">>, Str(SchemaOrg)>>,
                    <<<<"@","t","y","p","e">>, Str(<<"W","o","r","k","E","x","p","e","r","i","e","n","c","e">>)>>,
                    <<<<"n","a","m","e">>, Str(exp.role)>>,
                    <<<<"d","e","s","c","r","i","p","t","i","o","n">>, Str(exp.description)>>,
                    <<<<"s","t","a","r","t","D","a","t","e">>, Str(exp.startDate)>>,
                    <<<<"e","m","p","l","o","y","e","r">>, Obj(employer)>> >>
      schema1 == IF Truthy(exp.endDate)
                 THEN Append(schema0, <<<<"e","n","d","D","a","t","e">>, Str(exp.endDate[1])>>)
                 ELSE schema0
      schema2 == IF Len(exp.location) > 0
                 THEN Append(schema1, <<<<"l","o","c","a","t","i","o","n">>, Str(exp.location)>>)
                 ELSE schema1
  IN  IF NonEmptyList(exp.skills)
      THEN Append(schema2, <<<<"s","k","i","l","l","s">>, StrArray(exp.skills[1])>>)
      ELSE schema2

generateWorkExperienceSchema(experiences) ==
  JSONStringify(Arr([i \in 1..Len(experiences) |-> Obj(WorkExperienceSchema(experiences[i]))]))

\* the object built by the map callback of generateCreativeWorkSchema
CreativeWorkSchema(project, authorName) ==
  LET schema0 == << <<<<"@","c","o","n","t","e","x","t">>, Str(SchemaOrg)>>,
                    <<<<"@","t","y","p","e">>, Str(<<"C","r","e","a","t","i","v","e","W","o","r","k">>)>>,
                    <<<<"n","a","m","e">>, Str(project.name)>>,
                    <<<<"d","e","s","c","r","i","p","t","i","o","n">>, Str(project.description)>>,
                    <<<<"a","u","t","h","o","r">>,
                      Obj(<< <<<<"@","t","y","p","e">>, Str(<<"P","e","r","s","o","n">>)>>,
                             <<<<"n","a","m","e">>, Str(authorName)>> >>)>> >>
      schema1 == IF Truthy(project.url)
                 THEN Append(schema0, <<<<"u","r","l">>, Str(project.url[1])>>)
                 ELSE schema0
      schema2 == IF Truthy(project.dateCreated)
                 THEN Append(schema1, <<<<"d","a","t","e","C","r","e","a","t","e","d">>, Str(project.dateCreated[1])>>)
                 ELSE schema1
      schema3 == IF Truthy(project.datePublished)
                 THEN Append(schema2, <<<<"d","a","t","e","P","u","b","l","i","s","h","e","d">>, Str(project.datePublished[1])>>)
                 ELSE schema2
  IN  IF Len(project.technologies) > 0
      THEN Append(schema3, <<<<"k","e","y","w","o","r","d","s">>, StrArray(project.technologies)>>)
      ELSE schema3

generateCreativeWorkSchema(projects, authorName) ==
  JSONStringify(Arr([i \in 1..Len(projects) |-> Obj(CreativeWorkSchema(projects[i], authorName))]))

EducationSchema_noFrom(edu) ==
  LET name == edu.degree \o <<" ","i","n"," ">> \o edu.field
      schema0 == << <<<<"@","c","o","n","t","e","x","t">>, Str(SchemaOrg)>>,
                    <<<<"@","t","y","p","e">>, Str(<<"E","d","u","c","a","t","i","o","n","a","l","O","c","c",
                                        "u","p","a","t","i","o","n","a","l","C","r","e","d","e",
                                        "n","t","i","a","l">>)>>,
                    <<<<"n","a","m","e">>, Str(name)>>,
                    <<<<"r","e","c","o","g","n","i","z","e","d","B","y">>,
                      Obj(<< <<<<"@","t","y","p","e">>, Str(<<"O","r","g","a","n","i","z","a","t","i","o","n">>)>>,
                             <<<<"n","a","m","e">>, Str(edu.institution)>> >>)>> >>
      schema1 == IF Len(edu.degree) > 0
                 THEN schema0 \o << <<<<"e","d","u","c","a","t","i","o","n","a","l","L","e","v",
                                        "e","l">>, Str(edu.degree)>>,
                                    <<<<"c","r","e","d","e","n","t","i","a","l","C","a","t","e",
                                        "g","o","r","y">>, Str(edu.field)>> >>
                 ELSE schema0
      schema2 == IF Len(edu.startDate) > 0
                 THEN Append(schema1, <<<<"s","t","a","r","t","D","a","t","e">>, Str(edu.startDate)>>)
                 ELSE schema1
      schema3 == IF Len(edu.endDate) > 0
                 THEN Append(schema2, <<<<"e","n","d","D","a","t","e">>, Str(edu.endDate)>>)
                 ELSE schema2
      schema4 == IF Truthy(edu.gpa)
                 THEN Append(schema3, <<<<"g","r","a","d","e">>, Str(edu.gpa[1])>>)
                 ELSE schema3
      parts1 == IF Len(edu.degree) > 0 /\ Len(edu.field) > 0 THEN <<name>> ELSE << >>
      parts2 == IF Len(edu.institution) > 0
                THEN Append(parts1, edu.institution)
                ELSE parts1
      descriptionParts ==
                IF Truthy(edu.location)
                THEN Append(parts2, <<"(">> \o edu.location[1] \o <<")">>)
                ELSE parts2
  IN  IF Len(descriptionParts) > 0
      THEN Append(schema4, <<<<"d","e","s","c","r","i","p","t","i","o","n">>, Str(Join(descriptionParts, <<" ">>))>>)
      ELSE schema4

\* the object built by the map callback of generateEducationSchema
EducationSchema(edu) ==
  LET name == edu.degree \o <<" ","i","n"," ">> \o edu.field
      schema0 == << <<<<"@","c","o","n","t","e","x","t">>, Str(SchemaOrg)>>,
                    <<<<"@","t","y","p","e">>, Str(<<"E","d","u","c","a","t","i","o","n","a","l","O","c","c",
                                        "u","p","a","t","i","o","n","a","l","C","r","e","d","e",
                                        "n","t","i","a","l">>)>>,
                    <<<<"n","a","m","e">>, Str(name)>>,
                    <<<<"r","e","c","o","g","n","i","z","e","d","B","y">>,
                      Obj(<< <<<<"@","t","y","p","e">>, Str(<<"O","r","g","a","n","i","z","a","t","i","o","n">>)>>,
                             <<<<"n","a","m","e">>, Str(edu.institution)>> >>)>> >>
      schema1 == IF Len(edu.degree) > 0
                 THEN schema0 \o << <<<<"e","d","u","c","a","t","i","o","n","a","l","L","e","v",
                                        "e","l">>, Str(edu.degree)>>,
                                    <<<<"c","r","e","d","e","n","t","i","a","l","C","a","t","e",
                                        "g","o","r","y">>, Str(edu.field)>> >>
                 ELSE schema0
      schema2 == IF Len(edu.startDate) > 0
                 THEN Append(schema1, <<<<"s","t","a","r","t","D","a","t","e">>, Str(edu.startDate)>>)
                 ELSE schema1
      schema3 == IF Len(edu.endDate) > 0
                 THEN Append(schema2, <<<<"e","n","d","D","a","t","e">>, Str(edu.endDate)>>)
                 ELSE schema2
      schema4 == IF Truthy(edu.gpa)
                 THEN Append(schema3, <<<<"g","r","a","d","e">>, Str(edu.gpa[1])>>)
                 ELSE schema3
      parts1 == IF Len(edu.degree) > 0 /\ Len(edu.field) > 0 THEN <<name>> ELSE << >>
      parts2 == IF Len(edu.institution) > 0
                THEN Append(parts1, <<"f","r","o","m"," ">> \o edu.institution)
                ELSE parts1
      descriptionParts ==
                IF Truthy(edu.location)
                THEN Append(parts2, <<"(">> \o edu.location[1] \o <<")">>)
                ELSE parts2
  IN  IF Len(descriptionParts) > 0
      THEN Append(schema4, <<<<"d","e","s","c","r","i","p","t","i","o","n">>, Str(Join(descriptionParts, <<" ">>))>>)
      ELSE schema4

generateEducationSchema_reversed(education) ==
  JSONStringify(Arr([i \in 1..Len(education) |->
                       Obj(EducationSchema(education[Len(education) + 1 - i]))]))

generateEducationSchema(education) ==
  JSONStringify(Arr([i \in 1..Len(education) |-> Obj(EducationSchema(education[i]))]))

(***************************************************************************)
(* The configuration resolver, src/src/seo/config.ts.                      *)
(*                                                                         *)
(* env is the optional argument of bindings (undefined, or a record whose  *)
(* five keys are each undefined or a string); process is the global        *)
(* process.env of the runtime (undefined where there is no process).       *)
(***************************************************************************)
getEnv_processFirst(key, defaultValue, env, process) ==
  IF process # Absent /\ Truthy(process[1][key]) THEN process[1][key][1]
  ELSE IF env # Absent /\ Truthy(env[1][key]) THEN env[1][key][1]
  ELSE defaultValue

getEnv(key, defaultValue, env, process) ==
  IF env # Absent /\ Truthy(env[1][key]) THEN env[1][key][1]
  ELSE IF process # Absent /\ Truthy(process[1][key]) THEN process[1][key][1]
  ELSE defaultValue

isProduction_anyCase(env, process) ==
  getEnv("ENVIRONMENT", <<"p","r","o","d","u","c","t","i","o","n">>, env, process) \in {<<"p","r","o","d","u","c","t","i","o",
                                                              "n">>, <<"P","r","o","d","u","c","t","i","o",
                                                                               "n">>}

isProduction(env, process) ==
  getEnv("ENVIRONMENT", <<"p","r","o","d","u","c","t","i","o","n">>, env, process) = <<"p","r","o","d","u","c","t","i","o",
                                                           "n">>

createSiteConfig(env, process) ==
  [ url    |-> getEnv("SITE_URL", <<"h","t","t","p","s",":","/","/","s","a","n","d","e","e","p",
                                    "k","o","m","m","i","n","e","n","i",".","m","e">>, env, process),
    domain |-> getEnv("SITE_DOMAIN", <<"s","a","n","d","e","e","p","k","o","m","m","i","n","e",
                                       "n","i",".","m","e">>, env, process) ]

createAnalyticsConfig(env, process) ==
  [ googleAnalyticsId     |-> getEnv("GA_MEASUREMENT_ID", << >>, env, process),
    googleSearchConsoleId |-> getEnv("GSC_VERIFICATION_ID", << >>, env, process),
    enableDebug           |-> ~isProduction(env, process) ]

\* the fields of the SEOConfig that depend on the environment; the others are
\* module-level literals (SITE_NAME, SITE_AUTHOR, SITE_DESCRIPTION, ALL_KEYWORDS, PERSON_DATA)
createSEOConfig(env, process) ==
  LET siteConfig == createSiteConfig(env, process)
  IN  [ site        |-> [url |-> siteConfig.url, domain |-> siteConfig.domain],
        meta        |-> [ogImage |-> siteConfig.url \o <<"/","s","t","a","t","i","c","/","p",
                                                         "r","o","f","i","l","e",".","j","p","g">>],
        person      |-> [image |-> siteConfig.url \o <<"/","s","t","a","t","i","c","/","p","r",
                                                       "o","f","i","l","e",".","j","p","g">>],
        analytics   |-> createAnalyticsConfig(env, process),
        environment |-> IF isProduction(env, process) THEN <<"p","r","o","d","u","c","t","i","o",
                                                             "n">>
                        ELSE <<"d","e","v","e","l","o","p","m","e","n","t">> ]

(***************************************************************************)
(* The cache headers middleware, src/src/middleware/cache-headers.ts.      *)
(*                                                                         *)
(* A response is its status, its headers (a function from the lower-case   *)
(* header name to the optional value) and the list of the headers set on   *)
(* it by c.header, in call order.                                          *)
(***************************************************************************)
\* the /i flag: letters compared without case
ToLowerCase(s) ==
  LET upper == <<"A","B","C","D","E","F","G","H","I","J","K","L","M","N","O","P","Q","R","S",
                 "T","U","V","W","X","Y","Z">>
      lower == <<"a","b","c","d","e","f","g","h","i","j","k","l","m","n","o","p","q","r","s",
                 "t","u","v","w","x","y","z">>
  IN  [i \in 1..Len(s) |->
         IF \E k \in DOMAIN upper : upper[k] = s[i]
         THEN lower[CHOOSE k \in DOMAIN upper : upper[k] = s[i]]
         ELSE s[i]]

\* String.prototype.endsWith
EndsWith(s, suffix) ==
  Len(s) >= Len(suffix) /\ SubSeq(s, Len(s) - Len(suffix) + 1, Len(s)) = suffix

\* /\.(jpg|jpeg|png|gif|webp|svg|ico|woff|woff2|ttf|eot)$/i
ImageFontExtensions ==
  { <<"j","p","g">>, <<"j","p","e","g">>, <<"p","n","g">>, <<"g","i","f">>, <<"w","e","b","p">>, <<"s","v","g">>, <<"i","c","o">>,
    <<"w","o","f","f">>, <<"w","o","f","f","2">>, <<"t","t","f">>, <<"e","o","t">> }

StyleScriptExtensions_cssOnly == { <<"c","s","s">> }

\* /\.(css|js)$/i
StyleScriptExtensions == { <<"c","s","s">>, <<"j","s">> }

\* path.match(/\.(e1|e2|...)$/i)
MatchesExtension(path, extensions) ==
  \E e \in extensions : EndsWith(ToLowerCase(path), <<".">> \o e)

\* c.header(name, value) on a finalized response: the value replaces the header
SetHeader(res, name, value) ==
  [res EXCEPT !.headers[name] = Some(value), !.set = Append(@, name)]

\* cacheHeaders(c, next) after await next(): path is c.req.path, res the response
\* the downstream handlers produced
cacheHeaders(path, res) ==
  LET cached ==
        IF \/ MatchesExtension(path, ImageFontExtensions)
           \/ MatchesExtension(path, StyleScriptExtensions)
        THEN SetHeader(res, "cache-control", <<"p","u","b","l","i","c",","," ","m","a","x","-",
                                               "a","g","e","=","3","1","5","3","6","0","0","0",
                                               ","," ","i","m","m","u","t","a","b","l","e">>)
        ELSE IF EndsWith(path, <<".","h","t","m","l">>) \/ path = <<"/">>
        THEN SetHeader(res, "cache-control", <<"p","u","b","l","i","c",","," ","m","a","x","-",
                                               "a","g","e","=","3","6","0","0",","," ","m","u",
                                               "s","t","-","r","e","v","a","l","i","d","a","t",
                                               "e">>)
        ELSE IF path = <<"/","s","i","t","e","m","a","p",".","x","m","l">> \/ path = <<"/","r","o","b","o","t","s",".","t","x","t">>
        THEN SetHeader(res, "cache-control", <<"p","u","b","l","i","c",","," ","m","a","x","-",
                                               "a","g","e","=","8","6","4","0","0">>)
        ELSE res
      sniff == SetHeader(cached, "x-content-type-options", <<"n","o","s","n","i","f","f">>)
  IN  SetHeader(sniff, "x-frame-options", <<"S","A","M","E","O","R","I","G","I","N">>)

(***************************************************************************)
(* The application, src/src/index.tsx: a Hono application with one route,  *)
(* GET /, and no middleware; a request no route matches gets the           *)
(* framework's 404 response.                                               *)
(***************************************************************************)
NoHeaders ==
  [ name \in {"cache-control", "content-type", "x-content-type-options", "x-frame-options"}
      |-> Absent ]

\* c.html(html); of the document only its first line is kept
HtmlResponse ==
  [ status  |-> 200,
    headers |-> [NoHeaders EXCEPT !["content-type"] = Some(<<"t","e","x","t","/","h","t","m","l",
                                                             ";"," ","c","h","a","r","s","e","t",
                                                             "=","U","T","F","-","8">>)],
    body    |-> <<"<","!","D","O","C","T","Y","P","E"," ","h","t","m","l",">">>,
    set     |-> << >> ]

\* the response of new Hono() to a request without a route
NotFoundResponse ==
  [ status  |-> 404,
    headers |-> [NoHeaders EXCEPT !["content-type"] = Some(<<"t","e","x","t","/","p","l","a","i",
                                                             "n",";"," ","c","h","a","r","s","e",
                                                             "t","=","U","T","F","-","8">>)],
    body    |-> <<"4","0","4"," ","N","o","t"," ","F","o","u","n","d">>,
    set     |-> << >> ]

\* app.request(path) with the given method
appRequest(method, path) ==
  IF method = "GET" /\ path = <<"/">> THEN HtmlResponse ELSE NotFoundResponse

(***************************************************************************)
(* Do Not Track, src/unnamed/part_007 (the analytics module).  The browser *)
(* signals are navigator.doNotTrack, window.doNotTrack and                 *)
(* navigator.msDoNotTrack, each undefined or a string.                     *)
(***************************************************************************)
\* a || b
JsOr(a, b) == IF Truthy(a) THEN a ELSE b

isDNTEnabled_firstOnly(signals) ==
  signals.navigatorDoNotTrack = Some(<<"1">>) \/ signals.navigatorDoNotTrack = Some(<<"y","e","s">>)

isDNTEnabled(signals) ==
  LET dnt == JsOr(JsOr(signals.navigatorDoNotTrack, signals.windowDoNotTrack),
                  signals.navigatorMsDoNotTrack)
  IN  dnt = Some(<<"1">>) \/ dnt = Some(<<"y","e","s">>)

\* the condition of the script of generateAnalyticsScript under which it sets
\* window['ga-disable-<id>'] = true
analyticsScriptDisablesGA(signals) ==
  signals.navigatorDoNotTrack = Some(<<"1">>) \/ signals.windowDoNotTrack = Some(<<"1">>)

(***************************************************************************)
(* The inputs the formatters are applied to.                               *)
(***************************************************************************)
Chars == {"&", "<", ">", "\"", "'", "a"}

\* every string over Chars of at most MaxTextLen characters
Texts == UNION {[1..n -> Chars] : n \in 0..MaxTextLen}

\* strings that look like the markup and the entities the formatters emit
MarkupTexts ==
  { <<"<","t","i","t","l","e",">">>,
    <<"&","a","m","p",";">>,
    <<"&","#","0","3","9",";">>,
    <<"\"",">","<","m","e","t","a"," ","n","a","m","e","=","\"","d","e","s","c","r","i","p","t",
      "i","o","n","\""," ","c","o","n","t","e","n","t","=","\"">>,
    <<"<","l","i","n","k"," ","r","e","l","=","\"","c","a","n","o","n","i","c","a","l","\""," ",
      "h","r","e","f","=","\"","x","\"",">">>,
    <<"<","m","e","t","a"," ","n","a","m","e","=","\"","v","i","e","w","p","o","r","t","\"",">">> }

AllTexts == Texts \cup MarkupTexts

\* the first n characters of seed repeated over and over
Repeat(seed, n) == [i \in 1..n |-> seed[((i - 1) % Len(seed)) + 1]]

DescriptionSeeds == { <<"a">>, <<"&","b">>, <<"<","c","\"">>, <<"'","d",">",".">> }

DescriptionLengths ==
  {0, 1, 3} \cup ((DefaultMaxLength - 4)..(DefaultMaxLength + MaxOver))

Descriptions == {Repeat(s, n) : s \in DescriptionSeeds, n \in DescriptionLengths}

OptionalTexts == {Absent} \cup {Some(t) : t \in {<< >>, <<"a">>, <<"<">>, <<"\"","&","'">>}}

Keywords == {<< >>, <<"a">>, <<"b","&","\"">>}

KeywordLists == UNION {[1..n -> Keywords] : n \in 0..MaxKeywords}

OptionalKeywordLists == {Absent} \cup {Some(k) : k \in KeywordLists}

BaseMetaTagsConfig ==
  [ title        |-> <<"T">>,
    description  |-> <<"D">>,
    canonicalUrl |-> <<"h","t","t","p","s",":","/","/","x",".","m","e">>,
    keywords     |-> Absent,
    author       |-> Absent ]

MetaTagsConfigs ==
  {[BaseMetaTagsConfig EXCEPT !.title = t, !.author = a] :
      t \in AllTexts, a \in OptionalTexts}
  \cup {[BaseMetaTagsConfig EXCEPT !.keywords = k, !.author = a] :
      k \in OptionalKeywordLists, a \in OptionalTexts}
  \cup {[BaseMetaTagsConfig EXCEPT !.description = d, !.title = t] :
      d \in Descriptions, t \in {<<"T">>, <<"<","t","i","t","l","e",">">>}}
  \cup {[BaseMetaTagsConfig EXCEPT !.description = d, !.canonicalUrl = u] :
      d \in MarkupTexts, u \in AllTexts}

OgTypes == { <<"w","e","b","s","i","t","e">>, <<"a","r","t","i","c","l","e">>, <<"p","r","o","f","i","l","e">> }

BaseOpenGraphTags ==
  [ ogTitle       |-> <<"T">>,
    ogDescription |-> <<"D">>,
    ogImage       |-> <<"h","t","t","p","s",":","/","/","x",".","m","e","/","i",".","j","p","g">>,
    ogType        |-> <<"w","e","b","s","i","t","e">>,
    ogUrl         |-> <<"h","t","t","p","s",":","/","/","x",".","m","e">>,
    ogSiteName    |-> Absent ]

OpenGraphTagsInputs ==
  {[BaseOpenGraphTags EXCEPT !.ogTitle = t, !.ogSiteName = s] :
      t \in AllTexts, s \in OptionalTexts}
  \cup {[BaseOpenGraphTags EXCEPT !.ogDescription = d, !.ogImage = i] :
      d \in AllTexts, i \in MarkupTexts}
  \cup {[BaseOpenGraphTags EXCEPT !.ogType = y, !.ogUrl = u, !.ogSiteName = s] :
      y \in OgTypes, u \in AllTexts, s \in {Absent, Some(<<"<","m","e","t","a"," ","p","r","o",
                                                           "p","e","r","t","y","=","\"","o","g",
                                                           ":","u","r","l","\"">>)}}

TwitterCards == { <<"s","u","m","m","a","r","y">>, <<"s","u","m","m","a","r","y","_","l","a","r","g","e","_","i",
                                  "m","a","g","e">>, <<"a","p","p">>, <<"p","l","a","y","e","r">> }

BaseTwitterCardTags ==
  [ twitterCard        |-> <<"s","u","m","m","a","r","y","_","l","a","r","g","e","_","i","m",
                             "a","g","e">>,
    twitterTitle       |-> <<"T">>,
    twitterDescription |-> <<"D">>,
    twitterImage       |-> <<"h","t","t","p","s",":","/","/","x",".","m","e","/","i",".","j",
                             "p","g">>,
    twitterSite        |-> Absent,
    twitterCreator     |-> Absent ]

TwitterCardTagsInputs ==
  {[BaseTwitterCardTags EXCEPT !.twitterTitle = t, !.twitterSite = s, !.twitterCreator = c] :
      t \in MarkupTexts, s \in OptionalTexts, c \in OptionalTexts}
  \cup {[BaseTwitterCardTags EXCEPT !.twitterDescription = d, !.twitterImage = i] :
      d \in AllTexts, i \in MarkupTexts}
  \cup {[BaseTwitterCardTags EXCEPT !.twitterCard = k, !.twitterTitle = t] :
      k \in TwitterCards, t \in AllTexts}

Lastmods == { <<"2","0","2","4","-","0","1","-","0","1","T","0","0",":","0","0",":","0","0",".",
                "0","0","0","Z">>, <<"2","0","2","5","-","0","6","-","3","0","T","1",
                                               "2",":","3","4",":","5","6",".","7","8","9","Z">> }

Locs ==
  { <<"h","t","t","p","s",":","/","/","x",".","m","e","/">>,
    <<"h","t","t","p","s",":","/","/","x",".","m","e","/","a","&","b">>,
    <<"h","t","t","p","s",":","/","/","x",".","m","e","/","<","l","o","c",">">>,
    <<"h","t","t","p","s",":","/","/","x",".","m","e","/","&","a","m","p",";">>,
    <<"h","t","t","p","s",":","/","/","x",".","m","e","/","\"","'","<","/","u","r","l",">">> }

\* priorities, in tenths: -0.5, 0, 0.3, 1, 1.5
Priorities == {-5, 0, 3, 10, 15}

BaseSitemapURL ==
  [ loc        |-> <<"h","t","t","p","s",":","/","/","x",".","m","e","/">>,
    lastmod    |-> <<"2","0","2","4","-","0","1","-","0","1","T","0","0",":","0","0",":","0",
                     "0",".","0","0","0","Z">>,
    changefreq |-> <<"w","e","e","k","l","y">>,
    priority   |-> 10 ]

SitemapURLs ==
  {[BaseSitemapURL EXCEPT !.loc = l] : l \in Locs}
  \cup {[BaseSitemapURL EXCEPT !.priority = p] : p \in Priorities}
  \cup {[BaseSitemapURL EXCEPT !.lastmod = m, !.changefreq = f] :
          m \in Lastmods, f \in {<<"a","l","w","a","y","s">>, <<"d","a","i","l","y">>, <<"n","e","v","e","r">>}}

SitemapURLLists == UNION {[1..n -> SitemapURLs] : n \in 0..MaxUrls}

\* the argument of generateRobotsTxt: the site's sitemap address and other strings
SitemapUrlArguments ==
  { <<"h","t","t","p","s",":","/","/","s","a","n","d","e","e","p","k","o","m","m","i","n","e",
      "n","i",".","m","e","/","s","i","t","e","m","a","p",".","x","m","l">>, <<"h","t","t","p",":","/","/","l","o","c","a",
                                                    "l","h","o","s","t",":","8","7","8","7","/",
                                                    "s","i","t","e","m","a","p",".","x","m","l">> }
  \cup AllTexts

\* strings that need JSON escaping or look like JSON syntax
JsonTexts ==
  { <<"a","\"","b">>, <<"c","\\","d">>, <<"e","\n","f">>, <<"\"",","," ","\"","@","t","y","p","e","\"",":"," ","\"",
                                      "X">>, <<"}","]">>, <<"\\","\"">> }

OptionalStrings(text) == {Absent, Some(<< >>), Some(text)}

BasePersonData ==
  [ name           |-> <<"S","a","n","d","e","e","p"," ","K","o","m","m","i","n","e","n","i">>,
    jobTitle       |-> <<"A","I","/","M","L"," ","E","n","g","i","n","e","e","r">>,
    email          |-> <<"s","a","n","d","e","e","p","@","e","x","a","m","p","l","e",".","c",
                         "o","m">>,
    phone          |-> <<"+","9","1","9","5","7","3","4","5","6","0","0","1">>,
    location       |-> [city |-> <<"G","u","n","t","u","r">>, region |-> <<"A","n","d","h","r","a"," ","P","r",
                                                           "a","d","e","s","h">>,
                        country |-> <<"I","n","d","i","a">>],
    socialProfiles |-> [github |-> <<"h","t","t","p","s",":","/","/","g","i","t","h","u","b",
                                     ".","c","o","m","/","s">>,
                        linkedin |-> <<"h","t","t","p","s",":","/","/","l","i","n","k","e","d",
                                       "i","n",".","c","o","m","/","i","n","/","s">>],
    image          |-> Absent,
    bio            |-> Absent ]

PersonDatas ==
  {[BasePersonData EXCEPT !.image = i, !.bio = b] :
     i \in OptionalStrings(<<"h","t","t","p","s",":","/","/","x",".","m","e","/","m","e",".",
                             "j","p","g">>),
     b \in OptionalStrings(<<"I"," ","b","u","i","l","d"," ","\"","A","I","\""," ","s","y","s",
                             "t","e","m","s">>) \cup {Some(<<"e","\n","f">>)}}
  \cup {[BasePersonData EXCEPT !.name = t, !.location.city = u] : t, u \in JsonTexts}
  \cup {[BasePersonData EXCEPT !.jobTitle = t, !.email = t, !.phone = t] : t \in JsonTexts}
  \cup {[BasePersonData EXCEPT !.socialProfiles = [github |-> g, linkedin |-> l]] :
          g, l \in {<<"h","t","t","p","s",":","/","/","g","i","t","h","u","b",".","c","o","m",
                      "/","s">>, <<"h","t","t","p","s",":","/","/","l","i","n",
                                                 "k","e","d","i","n",".","c","o","m","/","i",
                                                 "n","/","s">>}}

SiteUrls == { <<"h","t","t","p","s",":","/","/","s","a","n","d","e","e","p","k","o","m","m","i",
                "n","e","n","i",".","m","e">>, <<"h","t","t","p",":","/","/","l","o","c","a",
                                                  "l","h","o","s","t",":","8","7","8","7">> }

PersonSchemaArguments == [data : PersonDatas, siteUrl : SiteUrls]

BaseExperienceData ==
  [ company     |-> <<"A","c","m","e">>,
    role        |-> <<"E","n","g","i","n","e","e","r">>,
    description |-> <<"B","u","i","l","t"," ","t","h","i","n","g","s">>,
    startDate   |-> <<"2","0","2","4","-","0","1">>,
    endDate     |-> Absent,
    location    |-> <<"G","u","n","t","u","r">>,
    skills      |-> Absent,
    companyUrl  |-> Absent ]

SkillLists == { << >>, <<<<"G","o">>>>, <<<<"T","L","A","+">>, <<"a","\"","b">>>> }

ExperienceDatas ==
  {[BaseExperienceData EXCEPT !.endDate = e, !.companyUrl = u, !.location = l, !.skills = s] :
     e \in OptionalStrings(<<"2","0","2","5","-","0","6">>),
     u \in OptionalStrings(<<"h","t","t","p","s",":","/","/","a","c","m","e",".","i","o">>),
     l \in {<< >>, <<"G","u","n","t","u","r">>},
     s \in {Absent} \cup {Some(k) : k \in SkillLists}}
  \cup {[BaseExperienceData EXCEPT !.role = t, !.company = u] : t, u \in JsonTexts}

\* records of the lists of several elements, told apart by every required field
ExperienceSample ==
  { BaseExperienceData,
    [BaseExperienceData EXCEPT !.role = <<"I","n","t","e","r","n">>, !.company = <<"I","n","i","t","e","c","h">>,
                               !.description = <<"F","i","x","e","d"," ","\"","b","u","g","s",
                                                 "\"">>, !.startDate = <<"2","0","2","3","-","0","5">>,
                               !.endDate = Some(<<"2","0","2","3","-","0","8">>)] }

Lists(S, n) == UNION {[1..k -> S] : k \in 0..n}

ExperienceLists == {<<e>> : e \in ExperienceDatas} \cup Lists(ExperienceSample, MaxRecords)

BaseProjectData ==
  [ name          |-> <<"P","o","r","t","f","o","l","i","o">>,
    description   |-> <<"T","h","i","s"," ","s","i","t","e">>,
    url           |-> Absent,
    technologies  |-> << >>,
    dateCreated   |-> Absent,
    datePublished |-> Absent ]

ProjectDatas ==
  {[BaseProjectData EXCEPT !.url = u, !.technologies = k, !.dateCreated = c,
                           !.datePublished = p] :
     u \in OptionalStrings(<<"h","t","t","p","s",":","/","/","x",".","m","e","/","p">>),
     k \in SkillLists,
     c \in {Absent, Some(<<"2","0","2","4","-","0","1","-","0","1">>)},
     p \in {Absent, Some(<< >>), Some(<<"2","0","2","4","-","0","2","-","0","2">>)}}
  \cup {[BaseProjectData EXCEPT !.name = t, !.description = t] : t \in JsonTexts}

ProjectSample ==
  { BaseProjectData,
    [BaseProjectData EXCEPT !.name = <<"C","h","a","t","b","o","t">>, !.description = <<"A","n"," ","\"","L","L","M","\""," ",
                                                                     "b","o","t">>,
                            !.technologies = <<<<"G","o">>>>] }

AuthorNames == { <<"S","a","n","d","e","e","p"," ","K","o","m","m","i","n","e","n","i">>, <<"a","\"","b">> }

CreativeWorkSchemaArguments ==
  [ projects   : {<<p>> : p \in ProjectDatas} \cup Lists(ProjectSample, MaxRecords),
    authorName : AuthorNames ]

BaseEducationData ==
  [ institution |-> <<"K","L"," ","U","n","i","v","e","r","s","i","t","y">>,
    degree      |-> <<"B",".","T","e","c","h">>,
    field       |-> <<"C","S","E">>,
    startDate   |-> <<"2","0","2","1">>,
    endDate     |-> <<"2","0","2","5">>,
    gpa         |-> Absent,
    location    |-> Absent ]

EducationDatas ==
  {[BaseEducationData EXCEPT !.degree = d, !.field = f, !.institution = i, !.location = l,
                             !.gpa = g] :
     d \in {<< >>, <<"B",".","T","e","c","h">>},
     f \in {<< >>, <<"C","S","E">>},
     i \in {<< >>, <<"K","L"," ","U","n","i","v","e","r","s","i","t","y">>},
     l \in OptionalStrings(<<"V","a","d","d","e","s","w","a","r","a","m",","," ","I","n","d",
                             "i","a">>),
     g \in OptionalStrings(<<"9",".","1">>)}
  \cup {[BaseEducationData EXCEPT !.startDate = s, !.endDate = e] :
          s, e \in {<< >>, <<"2","0","2","1">>}}
  \cup {[BaseEducationData EXCEPT !.degree = t, !.institution = u] : t, u \in JsonTexts}

EducationSample ==
  { BaseEducationData,
    [BaseEducationData EXCEPT !.degree = <<"M",".","S",".">>, !.field = <<"A","I">>,
                              !.institution = <<"M","I","T">>, !.gpa = Some(<<"4",".","0">>)] }

EducationLists == {<<e>> : e \in EducationDatas} \cup Lists(EducationSample, MaxRecords)

\* interface Env: no key set
EmptyEnv ==
  [ SITE_URL |-> Absent, SITE_DOMAIN |-> Absent, GA_MEASUREMENT_ID |-> Absent,
    GSC_VERIFICATION_ID |-> Absent, ENVIRONMENT |-> Absent ]

EnvironmentValues ==
  {Absent} \cup {Some(v) : v \in {<< >>, <<"p","r","o","d","u","c","t","i","o","n">>, <<"d","e","v","e","l","o","p","m","e",
                                                            "n","t">>, <<"P","r","o","d","u","c","t","i","o",
                                                                              "n">>,
                                  <<"s","t","a","g","i","n","g">>}}

\* the bindings, or process.env: one of the four value keys varied together with ENVIRONMENT
Envs(url, domain, id) ==
  {[EmptyEnv EXCEPT !.SITE_URL = u, !.SITE_DOMAIN = d] :
     u \in OptionalStrings(url), d \in OptionalStrings(domain)}
  \cup {[EmptyEnv EXCEPT !.GA_MEASUREMENT_ID = g, !.GSC_VERIFICATION_ID = s] :
          g \in OptionalStrings(id), s \in OptionalStrings(<<"g","s","c","-">> \o id)}
  \cup {[EmptyEnv EXCEPT !.ENVIRONMENT = e] : e \in EnvironmentValues}

SEOConfigArguments ==
  [ env     : {Absent} \cup {Some(e) : e \in Envs(<<"h","t","t","p","s",":","/","/","b",".","d",
                                                    "e","v">>, <<"b",".","d","e","v">>, <<"G","-","B","1">>)},
    process : {Absent} \cup {Some(e) : e \in Envs(<<"h","t","t","p","s",":","/","/","p",".","d",
                                                    "e","v">>, <<"p",".","d","e","v">>, <<"G","-","P","2">>)} ]

RequestPaths ==
  { <<"/">>, <<"/","i","n","d","e","x",".","h","t","m","l">>, <<"/","s","t","a","t","i","c","/","s","t","y","l","e",".","c","s",
                                "s">>, <<"/","s","t","a","t","i","c","/","a","p",
                                                        "p",".","j","s">>,
    <<"/","s","t","a","t","i","c","/","p","r","o","f","i","l","e",".","j","p","g">>, <<"/","s","t","a","t","i","c","/","f","a","v","i","c","o","n",".",
                                "s","v","g">>, <<"/","a",".","J","P","G">>, <<"/","b",".","J","p","e","g">>,
    <<"/","c",".","p","n","g">>, <<"/","d",".","g","i","f">>, <<"/","e",".","w","e","b","p">>, <<"/","f","a","v","i","c","o","n",".","i","c","o">>, <<"/","f",".","w","o","f","f">>,
    <<"/","f",".","W","O","F","F","2">>, <<"/","f",".","t","t","f">>, <<"/","f",".","e","o","t">>, <<"/","s","i","t","e","m","a","p",".","x","m","l">>, <<"/","r","o","b","o","t","s",".","t",
                                                                  "x","t">>,
    <<"/","a","b","o","u","t">>, <<"/","x",".","j","s","x">>, <<"/","j","s">>, <<"/","a",".","c","s","s","/","b">>, <<"/","S","i","t","e","m","a","p",".",
                                                         "x","m","l">>, <<"/","d","a","t","a",".","j","s","o",
                                                                            "n">> }

\* what the handlers below the middleware answered
DownstreamResponses ==
  { HtmlResponse,
    NotFoundResponse,
    [HtmlResponse EXCEPT !.status = 500],
    [HtmlResponse EXCEPT !.headers["cache-control"] = Some(<<"n","o","-","s","t","o","r","e">>),
                         !.headers["x-frame-options"] = Some(<<"D","E","N","Y">>)] }

CacheHeadersArguments == [path : RequestPaths, res : DownstreamResponses]

AppRequests == [method : {"GET", "POST"}, path : RequestPaths]

\* description: string, maxLength: number, for short texts and small limits
TruncateArguments ==
  [ description : {Repeat(s, n) : s \in {<<"a">>, <<"<","c","\"">>}, n \in 0..MaxShortLen},
    maxLength   : 0..(MaxShortLen + 1) ]

DoNotTrackValues == {Absent, Some(<<"0">>), Some(<<"1">>), Some(<<"y","e","s">>)}

DoNotTrackSignals ==
  [ navigatorDoNotTrack   : DoNotTrackValues,
    windowDoNotTrack      : DoNotTrackValues,
    navigatorMsDoNotTrack : DoNotTrackValues ]

Functions ==
  { "generateBasicMetaTags", "generateOpenGraphTags", "generateTwitterCardTags",
    "generateSitemap", "generateRobotsTxt", "generatePersonSchema",
    "generateWorkExperienceSchema", "generateCreativeWorkSchema", "generateEducationSchema",
    "createSEOConfig", "cacheHeaders", "appRequest", "truncateDescription",
    "doNotTrack" }

Inputs(f) ==
  CASE f = "generateBasicMetaTags"   -> MetaTagsConfigs
    [] f = "generateOpenGraphTags"   -> OpenGraphTagsInputs
    [] f = "generateTwitterCardTags" -> TwitterCardTagsInputs
    [] f = "generateSitemap"         -> SitemapURLLists
    [] f = "generateRobotsTxt"       -> SitemapUrlArguments
    [] f = "generatePersonSchema"    -> PersonSchemaArguments
    [] f = "generateWorkExperienceSchema" -> ExperienceLists
    [] f = "generateCreativeWorkSchema"   -> CreativeWorkSchemaArguments
    [] f = "generateEducationSchema"      -> EducationLists
    [] f = "createSEOConfig"              -> SEOConfigArguments
    [] f = "cacheHeaders"                 -> CacheHeadersArguments
    [] f = "appRequest"                   -> AppRequests
    [] f = "truncateDescription"          -> TruncateArguments
    [] f = "doNotTrack"                   -> DoNotTrackSignals

(***************************************************************************)
(* The state machine: a caller holds the argument of one formatter (pc =   *)
(* "ready"), the call returns the formatter's string (pc = "done").        *)
(***************************************************************************)
Init ==
  /\ pc = "ready"
  /\ fn \in Functions
  /\ input \in Inputs(fn)
  /\ output = << >>
  /\ heap = NotInUse
  /\ tracker = NotInUse
  /\ counter = NotInUse
  /\ theme = NotInUse
  /\ typewriter = NotInUse

CallGenerateBasicMetaTags ==
  /\ pc = "ready"
  /\ fn = "generateBasicMetaTags"
  /\ output' = generateBasicMetaTags(input)
  /\ pc' = "done"
  /\ UNCHANGED <<fn, input, statefulVars>>

CallGenerateOpenGraphTags ==
  /\ pc = "ready"
  /\ fn = "generateOpenGraphTags"
  /\ output' = generateOpenGraphTags(input)
  /\ pc' = "done"
  /\ UNCHANGED <<fn, input, statefulVars>>

CallGenerateTwitterCardTags ==
  /\ pc = "ready"
  /\ fn = "generateTwitterCardTags"
  /\ output' = generateTwitterCardTags(input)
  /\ pc' = "done"
  /\ UNCHANGED <<fn, input, statefulVars>>

CallGenerateSitemap ==
  /\ pc = "ready"
  /\ fn = "generateSitemap"
  /\ output' = generateSitemap(input)
  /\ pc' = "done"
  /\ UNCHANGED <<fn, input, statefulVars>>

CallGenerateRobotsTxt ==
  /\ pc = "ready"
  /\ fn = "generateRobotsTxt"
  /\ output' = generateRobotsTxt(input)
  /\ pc' = "done"
  /\ UNCHANGED <<fn, input, statefulVars>>

CallGeneratePersonSchema ==
  /\ pc = "ready"
  /\ fn = "generatePersonSchema"
  /\ output' = generatePersonSchema(input.data, input.siteUrl)
  /\ pc' = "done"
  /\ UNCHANGED <<fn, input, statefulVars>>

CallGenerateWorkExperienceSchema ==
  /\ pc = "ready"
  /\ fn = "generateWorkExperienceSchema"
  /\ output' = generateWorkExperienceSchema(input)
  /\ pc' = "done"
  /\ UNCHANGED <<fn, input, statefulVars>>

CallGenerateCreativeWorkSchema ==
  /\ pc = "ready"
  /\ fn = "generateCreativeWorkSchema"
  /\ output' = generateCreativeWorkSchema(input.projects, input.authorName)
  /\ pc' = "done"
  /\ UNCHANGED <<fn, input, statefulVars>>

CallGenerateEducationSchema ==
  /\ pc = "ready"
  /\ fn = "generateEducationSchema"
  /\ output' = generateEducationSchema(input)
  /\ pc' = "done"
  /\ UNCHANGED <<fn, input, statefulVars>>

CallCreateSEOConfig ==
  /\ pc = "ready"
  /\ fn = "createSEOConfig"
  /\ output' = createSEOConfig(input.env, input.process)
  /\ pc' = "done"
  /\ UNCHANGED <<fn, input, statefulVars>>

CallCacheHeaders ==
  /\ pc = "ready"
  /\ fn = "cacheHeaders"
  /\ output' = cacheHeaders(input.path, input.res)
  /\ pc' = "done"
  /\ UNCHANGED <<fn, input, statefulVars>>

\* the application answers one request
AppRequest ==
  /\ pc = "ready"
  /\ fn = "appRequest"
  /\ output' = appRequest(input.method, input.path)
  /\ pc' = "done"
  /\ UNCHANGED <<fn, input, statefulVars>>

CallTruncateDescription ==
  /\ pc = "ready"
  /\ fn = "truncateDescription"
  /\ output' = truncateDescription(input.description, input.maxLength)
  /\ pc' = "done"
  /\ UNCHANGED <<fn, input, statefulVars>>

\* a page load under the given signals: the inline script of generateAnalyticsScript
\* evaluates its condition, the analytics module evaluates isDNTEnabled()
PageEvaluatesDoNotTrack ==
  /\ pc = "ready"
  /\ fn = "doNotTrack"
  /\ output' = [ gaDisabled   |-> analyticsScriptDisablesGA(input),
                 isDNTEnabled |-> isDNTEnabled(input) ]
  /\ pc' = "done"
  /\ UNCHANGED <<fn, input, statefulVars>>

Next ==
  \/ CallGenerateBasicMetaTags
  \/ CallGenerateOpenGraphTags
  \/ CallGenerateTwitterCardTags
  \/ CallGenerateSitemap
  \/ CallGenerateRobotsTxt
  \/ CallGeneratePersonSchema
  \/ CallGenerateWorkExperienceSchema
  \/ CallGenerateCreativeWorkSchema
  \/ CallGenerateEducationSchema
  \/ CallCreateSEOConfig
  \/ CallCacheHeaders
  \/ AppRequest
  \/ CallTruncateDescription
  \/ PageEvaluatesDoNotTrack

Spec == Init /\ [][Next]_vars

(***************************************************************************)
(* A specification of a part with state of its own leaves the formatter    *)
(* call out.                                                               *)
(***************************************************************************)
NoFormatterCall == pc = "idle" /\ fn = "none" /\ input = << >> /\ output = << >>

(***************************************************************************)
(* The objects of the configuration module, src/src/seo/config.ts, and the *)
(* configurations createSEOConfig hands out.  An object created by the     *)
(* call is held in the configuration itself; an object of the module that  *)
(* the configuration refers to is held by its name in heap.objects.        *)
(***************************************************************************)
\* PERSON_DATA.location, PERSON_DATA.socialProfiles and ALL_KEYWORDS as the module is loaded
ModuleObjects ==
  [ ALL_KEYWORDS |->
      << "Sandeep Kommineni", "AI/ML Engineer", "Full-Stack Developer",
         "Generative AI Engineer", "LLM Engineer", "AI Developer",
         "React Developer", "Python Developer", "FastAPI", "Next.js", "LiveKit", "OpenAI",
         "Machine Learning", "Deep Learning", "NLP", "Computer Vision", "RAG", "Agentic AI",
         "Real-time AI", "Multimodal AI",
         "Guntur", "Andhra Pradesh", "India", "AI Engineer India",
         "ML Engineer Andhra Pradesh" >>,
    location |-> [city |-> "Guntur", region |-> "Andhra Pradesh", country |-> "India"],
    socialProfiles |->
      [ github   |-> "https://github.com/SANDEEPxKOMMINENI",
        linkedin |-> "https://www.linkedin.com/in/sandeep-chowdary-kommineni/" ] ]

\* the object createSEOConfig returns: keywords: ALL_KEYWORDS is a reference, and the
\* spread ...PERSON_DATA copies the references to location and socialProfiles
createSEOConfigObject(env, process) ==
  LET config == createSEOConfig(env, process)
  IN  [ site        |-> config.site,
        meta        |-> [ogImage |-> config.meta.ogImage, keywords |-> "ALL_KEYWORDS"],
        person      |-> [ name           |-> "Sandeep Kommineni",
                          image          |-> config.person.image,
                          location       |-> "location",
                          socialProfiles |-> "socialProfiles" ],
        analytics   |-> config.analytics,
        environment |-> config.environment ]

\* the bindings of the requests
RequestEnvs ==
  { Absent,
    Some([EmptyEnv EXCEPT !.SITE_URL = Some(<<"h","t","t","p","s",":","/","/","b",".","d","e",
                                              "v">>),
                          !.ENVIRONMENT = Some(<<"d","e","v","e","l","o","p","m","e","n","t">>)]) }

InitConfigs ==
  /\ heap = [objects |-> ModuleObjects, configs |-> << >>, changes |-> 0, via |-> 0]
  /\ NoFormatterCall
  /\ tracker = NotInUse
  /\ counter = NotInUse
  /\ theme = NotInUse
  /\ typewriter = NotInUse

\* a request calls createSEOConfig(env) and keeps the result
RequestCreatesConfig ==
  /\ Len(heap.configs) < MaxConfigs
  /\ \E env \in RequestEnvs :
       heap' = [heap EXCEPT !.configs = Append(@, createSEOConfigObject(env, Absent)),
                            !.via = 0]
  /\ UNCHANGED <<formatterVars, tracker, counter, theme, typewriter>>

\* the holder of configuration k runs config.meta.keywords.push(keyword)
AppendKeyword ==
  /\ heap.changes < MaxChanges
  /\ \E k \in DOMAIN heap.configs :
       heap' = [heap EXCEPT !.objects[heap.configs[k].meta.keywords] = Append(@, "appended"),
                            !.changes = @ + 1,
                            !.via = k]
  /\ UNCHANGED <<formatterVars, tracker, counter, theme, typewriter>>

\* the holder of configuration k assigns config.person.location.city or
\* config.person.socialProfiles.github
AlterPersonObject ==
  /\ heap.changes < MaxChanges
  /\ \E k \in DOMAIN heap.configs :
       \/ heap' = [heap EXCEPT !.objects[heap.configs[k].person.location].city = "altered",
                               !.changes = @ + 1,
                               !.via = k]
       \/ heap' = [heap EXCEPT
                     !.objects[heap.configs[k].person.socialProfiles].github = "altered",
                     !.changes = @ + 1,
                     !.via = k]
  /\ UNCHANGED <<formatterVars, tracker, counter, theme, typewriter>>

\* the holder of configuration k assigns a field of an object the call created:
\* config.site.url or config.person.name
AlterOwnField ==
  /\ heap.changes < MaxChanges
  /\ \E k \in DOMAIN heap.configs :
       \/ heap' = [heap EXCEPT !.configs[k].site.url = <<"a","l","t","e","r","e","d">>,
                               !.changes = @ + 1,
                               !.via = k]
       \/ heap' = [heap EXCEPT !.configs[k].person.name = "altered",
                               !.changes = @ + 1,
                               !.via = k]
  /\ UNCHANGED <<formatterVars, tracker, counter, theme, typewriter>>

NextConfigs ==
  \/ RequestCreatesConfig
  \/ AppendKeyword
  \/ AlterPersonObject
  \/ AlterOwnField

SpecConfigs == InitConfigs /\ [][NextConfigs]_vars

(***************************************************************************)
(* The analytics of one page load, src/unnamed/part_007.  tracker holds    *)
(* the browser's Do Not Track signals, whether window.gtag is defined, the *)
(* listeners registered by each initializeAnalytics call that went through *)
(* (its click listeners and its intersection observer with the             *)
(* observedSections set of its trackSectionViews call), and the gtag       *)
(* events sent.  Every event sent is recorded with the Do Not Track state  *)
(* at that moment and with the listener and the observer entry it came     *)
(* from.  Intersection ratios are counted in tenths.                       *)
(***************************************************************************)
HalfVisible == 5

TrackerSignals ==
  { s \in DoNotTrackSignals :
      \/ s.navigatorDoNotTrack = Absent /\ s.windowDoNotTrack = Absent
           /\ s.navigatorMsDoNotTrack \in {Absent, Some(<<"y","e","s">>)}
      \/ s.navigatorDoNotTrack \in {Some(<<"0">>), Some(<<"1">>)} /\ s.windowDoNotTrack = Absent
           /\ s.navigatorMsDoNotTrack = Absent }

MeasurementIds == { << >>, <<"G","-","1">> }

SectionIds == {"about", "projects"}

NoEntry == [target |-> "none", isIntersecting |-> FALSE, intersectionRatio |-> 0]

IntersectionEntries ==
  { e \in [target : SectionIds, isIntersecting : BOOLEAN, intersectionRatio : {0, 4, 5, 10}] :
      e.isIntersecting <=> e.intersectionRatio > 0 }

ClickEvents ==
  { [eventName |-> "button_click",  eventLabel |-> "Unknown Button"],
    [eventName |-> "project_view",  eventLabel |-> "Unknown Project"],
    [eventName |-> "contact_click", eventLabel |-> "Unknown Contact"] }

\* window.gtag("event", eventName, {...})
gtag(t, eventName, eventLabel, listener, entry) ==
  [t EXCEPT !.sent = Append(@, [ eventName  |-> eventName,
                                 eventLabel |-> eventLabel,
                                 dntEnabled |-> isDNTEnabled(t.signals),
                                 listener   |-> listener,
                                 entry      |-> entry ])]

trackEvent_noDNTCheck(t, event, listener, entry) ==
  IF t.gtag THEN gtag(t, event.eventName, event.eventLabel, listener, entry) ELSE t

trackEvent(t, event, listener, entry) ==
  IF isDNTEnabled(t.signals) THEN t
  ELSE IF t.gtag THEN gtag(t, event.eventName, event.eventLabel, listener, entry)
  ELSE t

trackPageView(t, path) ==
  IF isDNTEnabled(t.signals) THEN t
  ELSE IF t.gtag THEN gtag(t, "page_view", path, 0, NoEntry)
  ELSE t

\* the body of the observer callback of listener i for one entry
ObserveEntry_everyTime(t, i, entry) ==
  IF entry.isIntersecting /\ entry.intersectionRatio >= HalfVisible
  THEN trackEvent([t EXCEPT !.listeners[i].observedSections = @ \cup {entry.target}],
                  [eventName |-> "section_view", eventLabel |-> entry.target], i, entry)
  ELSE t

ObserveEntry(t, i, entry) ==
  IF entry.isIntersecting /\ entry.intersectionRatio >= HalfVisible
  THEN IF entry.target \notin t.listeners[i].observedSections
       THEN trackEvent([t EXCEPT !.listeners[i].observedSections = @ \cup {entry.target}],
                       [eventName |-> "section_view", eventLabel |-> entry.target], i, entry)
       ELSE t
  ELSE t

\* entries.forEach(...)
RECURSIVE ObserveEntries(_, _, _)
ObserveEntries(t, i, entries) ==
  IF entries = << >> THEN t
  ELSE ObserveEntries(ObserveEntry(t, i, Head(entries)), i, Tail(entries))

\* a click on an element reaches the click listener of every initialization
RECURSIVE DispatchClick(_, _, _)
DispatchClick(t, event, i) ==
  IF i > Len(t.listeners) THEN t
  ELSE DispatchClick(trackEvent(t, event, i, NoEntry), event, i + 1)

initializeAnalytics_noIdCheck(t, config) ==
  IF isDNTEnabled(t.signals) THEN t
  ELSE [t EXCEPT !.listeners =
          Append(@, [ observedSections  |-> {},
                      dntAtRegistration |-> isDNTEnabled(t.signals),
                      measurementId     |-> config.googleAnalyticsId ])]

\* trackButtonClicks(), trackSectionViews() and trackExternalLinks() register the
\* listeners of this call
initializeAnalytics(t, config) ==
  IF isDNTEnabled(t.signals) \/ Len(config.googleAnalyticsId) = 0 THEN t
  ELSE [t EXCEPT !.listeners =
          Append(@, [ observedSections  |-> {},
                      dntAtRegistration |-> isDNTEnabled(t.signals),
                      measurementId     |-> config.googleAnalyticsId ])]

InitAnalytics ==
  /\ tracker \in [ signals : TrackerSignals, gtag : {FALSE}, listeners : {<< >>},
                   sent : {<< >>} ]
  /\ NoFormatterCall
  /\ heap = NotInUse /\ counter = NotInUse /\ theme = NotInUse /\ typewriter = NotInUse

\* the visitor changes the browser's Do Not Track setting
DoNotTrackChanged ==
  /\ \E s \in TrackerSignals \ {tracker.signals} :
       tracker' = [tracker EXCEPT !.signals = s]
  /\ UNCHANGED <<formatterVars, heap, counter, theme, typewriter>>

\* the Google Analytics script has loaded: window.gtag is defined
GtagLoaded ==
  /\ ~tracker.gtag
  /\ tracker' = [tracker EXCEPT !.gtag = TRUE]
  /\ UNCHANGED <<formatterVars, heap, counter, theme, typewriter>>

CallInitializeAnalytics ==
  /\ Len(tracker.listeners) < MaxInits
  /\ \E id \in MeasurementIds :
       tracker' = initializeAnalytics(tracker, [googleAnalyticsId |-> id])
  /\ UNCHANGED <<formatterVars, heap, counter, theme, typewriter>>

CallTrackPageView ==
  /\ Len(tracker.sent) < MaxEvents
  /\ tracker' = trackPageView(tracker, "/")
  /\ UNCHANGED <<formatterVars, heap, counter, theme, typewriter>>

CallTrackEvent ==
  /\ Len(tracker.sent) < MaxEvents
  /\ tracker' = trackEvent(tracker, [eventName |-> "custom", eventLabel |-> "custom"],
                           0, NoEntry)
  /\ UNCHANGED <<formatterVars, heap, counter, theme, typewriter>>

\* a click on a button, a project card or a contact card
TrackedElementClicked ==
  /\ Len(tracker.sent) + Len(tracker.listeners) <= MaxEvents
  /\ \E event \in ClickEvents : tracker' = DispatchClick(tracker, event, 1)
  /\ UNCHANGED <<formatterVars, heap, counter, theme, typewriter>>

\* a click on a link a[href^='http']; only a link to another host is tracked
LinkClicked ==
  /\ Len(tracker.sent) + Len(tracker.listeners) <= MaxEvents
  /\ \E otherHost \in BOOLEAN :
       tracker' = IF otherHost
                  THEN DispatchClick(tracker, [eventName  |-> "external_link_click",
                                               eventLabel |-> "https://other.example/"], 1)
                  ELSE tracker
  /\ UNCHANGED <<formatterVars, heap, counter, theme, typewriter>>

\* the intersection observer of listener i delivers a batch of entries
IntersectionCallback ==
  /\ \E i \in DOMAIN tracker.listeners :
       \E n \in 1..MaxEntries :
         /\ Len(tracker.sent) + n <= MaxEvents
         /\ \E entries \in [1..n -> IntersectionEntries] :
              tracker' = ObserveEntries(tracker, i, entries)
  /\ UNCHANGED <<formatterVars, heap, counter, theme, typewriter>>

NextAnalytics ==
  \/ DoNotTrackChanged
  \/ GtagLoaded
  \/ CallInitializeAnalytics
  \/ CallTrackPageView
  \/ CallTrackEvent
  \/ TrackedElementClicked
  \/ LinkClicked
  \/ IntersectionCallback

SpecAnalytics == InitAnalytics /\ [][NextAnalytics]_vars

(***************************************************************************)
(* The theme toggle of the page script, src/unnamed/part_011 (the same     *)
(* code as src/public/static/app.js:203-223).  theme holds the data-theme  *)
(* attribute of the document, the localStorage item "theme" (Absent when   *)
(* there is none), the class of the icon, and the clicks and reloads so    *)
(* far, each with the data-theme it left.                                  *)
(***************************************************************************)
\* <html lang="en" data-theme="dark">, <i class="fas fa-moon" id="themeIcon">
ServedPage == [dataTheme |-> "dark", iconClass |-> "fas fa-moon"]

StoredThemes == {Absent, Some(""), Some("light"), Some("dark"), Some("blue")}

syncIcon(dataTheme) ==
  LET dark == dataTheme # "light"
  IN  IF dark THEN "fas fa-moon" ELSE "fas fa-sun"

\* the script runs on the served page with the given localStorage
LoadTheme(storage) ==
  LET saved     == storage
      dataTheme == IF saved # Absent /\ saved # Some("") THEN saved[1]
                   ELSE ServedPage.dataTheme
  IN  [dataTheme |-> dataTheme, storage |-> storage, iconClass |-> syncIcon(dataTheme)]

ClickTheme_notStored(page) ==
  LET dark == page.dataTheme # "light"
      next == IF dark THEN "light" ELSE "dark"
  IN  [dataTheme |-> next, storage |-> page.storage, iconClass |-> syncIcon(next)]

\* the click listener of themeBtn
ClickTheme(page) ==
  LET dark == page.dataTheme # "light"
      next == IF dark THEN "light" ELSE "dark"
  IN  [dataTheme |-> next, storage |-> Some(next), iconClass |-> syncIcon(next)]

InitTheme ==
  /\ \E storage \in StoredThemes :
       theme = [page |-> LoadTheme(storage), history |-> << >>]
  /\ NoFormatterCall
  /\ heap = NotInUse /\ tracker = NotInUse /\ counter = NotInUse /\ typewriter = NotInUse

ThemeButtonClicked ==
  /\ Len(theme.history) < MaxSteps
  /\ LET page == ClickTheme(theme.page)
     IN  theme' = [page    |-> page,
                   history |-> Append(theme.history,
                                      [event |-> "click", dataTheme |-> page.dataTheme])]
  /\ UNCHANGED <<formatterVars, heap, tracker, counter, typewriter>>

PageReloaded ==
  /\ Len(theme.history) < MaxSteps
  /\ LET page == LoadTheme(theme.page.storage)
     IN  theme' = [page    |-> page,
                   history |-> Append(theme.history,
                                      [event |-> "reload", dataTheme |-> page.dataTheme])]
  /\ UNCHANGED <<formatterVars, heap, tracker, counter, typewriter>>

NextTheme ==
  \/ ThemeButtonClicked
  \/ PageReloaded

SpecTheme == InitTheme /\ [][NextTheme]_vars

(***************************************************************************)
(* The counter animation of the page script, src/unnamed/part_011 (the     *)
(* same code as src/public/static/app.js:270-287).  counter maps each      *)
(* .metric-value element to its data-count and data-suffix attributes, its *)
(* textContent, whether the observer cio still observes it, and the        *)
(* interval timers started on it, each with the cur, step, target and      *)
(* suffix of its closure.                                                  *)
(***************************************************************************)
StepDivisor == 50

CounterElements == {"apps", "rank"}

CounterTargets == {0, 3, MaxTarget}

CounterSuffixes == {Absent, Some(<<"t","h">>)}

\* parseInt of a string of decimal digits
RECURSIVE parseInt(_)
parseInt(s) ==
  IF Len(s) = 0 THEN 0
  ELSE LET last == s[Len(s)]
           digit == CHOOSE d \in 0..9 : DigitChars[d + 1] = last
       IN  10 * parseInt(SubSeq(s, 1, Len(s) - 1)) + digit

\* what the observer callback does for an intersecting entry, before unobserve
StartCounter(el) ==
  LET target == parseInt(el.dataCount)
      suffix == IF Truthy(el.dataSuffix) THEN el.dataSuffix[1] ELSE <<"+">>
      cur    == 0
      ceil   == (target + StepDivisor - 1) \div StepDivisor
      step   == IF ceil > 1 THEN ceil ELSE 1
  IN  [el EXCEPT !.timers = Append(@, [ cur |-> cur, step |-> step, target |-> target,
                                        suffix |-> suffix, active |-> TRUE ])]

\* the body of the observer callback for one entry
ObserveCounter(el, isIntersecting) ==
  IF ~isIntersecting THEN el
  ELSE [StartCounter(el) EXCEPT !.observed = FALSE]

CounterTick_notClamped(el, k) ==
  LET timer == el.timers[k]
      cur   == timer.cur + timer.step
  IN  [el EXCEPT !.timers[k].cur = cur,
                 !.timers[k].active = ~(cur >= timer.target),
                 !.textContent = NatToString(cur)
                                 \o (IF cur >= timer.target THEN timer.suffix ELSE << >>)]

\* the interval callback of timer k of the element
CounterTick(el, k) ==
  LET timer   == el.timers[k]
      added   == timer.cur + timer.step
      reached == added >= timer.target
      cur     == IF reached THEN timer.target ELSE added
  IN  [el EXCEPT !.timers[k].cur = cur,
                 !.timers[k].active = ~reached,
                 !.textContent = NatToString(cur)
                                 \o (IF cur = timer.target THEN timer.suffix ELSE << >>)]

InitCounter ==
  /\ \E targets \in [CounterElements -> CounterTargets] :
       \E suffixes \in [CounterElements -> CounterSuffixes] :
         counter = [ e \in CounterElements |->
                       [ dataCount   |-> NatToString(targets[e]),
                         dataSuffix  |-> suffixes[e],
                         textContent |-> <<"0">>,
                         observed    |-> TRUE,
                         timers      |-> << >> ] ]
  /\ NoFormatterCall
  /\ heap = NotInUse /\ tracker = NotInUse /\ theme = NotInUse /\ typewriter = NotInUse

\* cio delivers a batch of entries, one for each of some observed elements
CounterObserverCallback ==
  /\ \E batch \in (SUBSET { e \in CounterElements : counter[e].observed }) \ {{}} :
       /\ \A e \in batch : Len(counter[e].timers) < MaxStarts
       /\ \E isIntersecting \in [batch -> BOOLEAN] :
            counter' = [ e \in CounterElements |->
                           IF e \in batch
                           THEN ObserveCounter(counter[e], isIntersecting[e])
                           ELSE counter[e] ]
  /\ UNCHANGED <<formatterVars, heap, tracker, theme, typewriter>>

\* an interval timer of element e fires
IntervalFires(e) ==
  /\ \E k \in DOMAIN counter[e].timers :
       /\ counter[e].timers[k].active
       /\ counter' = [counter EXCEPT ![e] = CounterTick(@, k)]
  /\ UNCHANGED <<formatterVars, heap, tracker, theme, typewriter>>

NextCounter ==
  \/ CounterObserverCallback
  \/ \E e \in CounterElements : IntervalFires(e)

\* a running interval timer keeps firing every 25 ms
SpecCounter ==
  /\ InitCounter
  /\ [][NextCounter]_vars
  /\ \A e \in CounterElements : WF_vars(IntervalFires(e))

(***************************************************************************)
(* The typewriter effect of the page script, src/unnamed/part_011.         *)
(* typewriter holds the variables of the closure of type(), the            *)
(* textContent of the element, and the delay of the pending timer.         *)
(***************************************************************************)
phrases ==
  << <<"A","I","/","M","L"," ","E","n","g","i","n","e","e","r">>,
     <<"F","u","l","l","-","S","t","a","c","k"," ","D","e","v","e","l","o","p","e","r">>,
     <<"G","e","n","A","I"," ","B","u","i","l","d","e","r">>,
     <<"O","p","e","n"," ","S","o","u","r","c","e"," ","C","o","n","t","r","i","b","u","t","o",
       "r">>,
     <<"P","r","o","d","u","c","t","i","o","n"," ","P","l","a","t","f","o","r","m"," ","B","u",
       "i","l","d","e","r">> >>

type_skipsPhrase(t) ==
  LET current == phrases[t.phraseIndex + 1]
  IN  IF ~t.isDeleting
      THEN LET charIndex == t.charIndex + 1
           IN  [t EXCEPT !.textContent = Substring0(current, t.charIndex + 1),
                         !.charIndex = charIndex,
                         !.isDeleting = (charIndex = Len(current)),
                         !.delay = IF charIndex = Len(current) THEN 2000 ELSE 70]
      ELSE LET charIndex == t.charIndex - 1
           IN  [t EXCEPT !.textContent = Substring0(current, t.charIndex - 1),
                         !.charIndex = charIndex,
                         !.isDeleting = ~(charIndex = 0),
                         !.phraseIndex = IF charIndex = 0 THEN (@ + 2) % Len(phrases) ELSE @,
                         !.delay = IF charIndex = 0 THEN 500 ELSE 40]

type(t) ==
  LET current == phrases[t.phraseIndex + 1]
  IN  IF ~t.isDeleting
      THEN LET charIndex == t.charIndex + 1
           IN  [t EXCEPT !.textContent = Substring0(current, t.charIndex + 1),
                         !.charIndex = charIndex,
                         !.isDeleting = (charIndex = Len(current)),
                         !.delay = IF charIndex = Len(current) THEN 2000 ELSE 70]
      ELSE LET charIndex == t.charIndex - 1
           IN  [t EXCEPT !.textContent = Substring0(current, t.charIndex - 1),
                         !.charIndex = charIndex,
                         !.isDeleting = ~(charIndex = 0),
                         !.phraseIndex = IF charIndex = 0 THEN (@ + 1) % Len(phrases) ELSE @,
                         !.delay = IF charIndex = 0 THEN 500 ELSE 40]

InitTypewriter ==
  /\ typewriter = [ phraseIndex |-> 0, charIndex |-> 0, isDeleting |-> FALSE,
                    textContent |-> << >>, delay |-> 1200 ]
  /\ NoFormatterCall
  /\ heap = NotInUse /\ tracker = NotInUse /\ counter = NotInUse /\ theme = NotInUse

\* the pending timer fires and runs type()
TypeTimerFires ==
  /\ typewriter' = type(typewriter)
  /\ UNCHANGED <<formatterVars, heap, tracker, counter, theme>>

NextTypewriter ==
  \/ TypeTimerFires

\* type() always leaves a timer pending, and a pending timer fires
SpecTypewriter ==
  /\ InitTypewriter
  /\ [][NextTypewriter]_vars
  /\ WF_vars(TypeTimerFires)

(***************************************************************************)
(* Reading the emitted markup back: what a consumer of the output sees.    *)
(***************************************************************************)
\* the positions at which needle occurs in hay
Occurrences(hay, needle) ==
  {i \in 1..(Len(hay) - Len(needle) + 1) :
      hay[i] = needle[1] /\ SubSeq(hay, i, i + Len(needle) - 1) = needle}

Count(hay, needle) == Cardinality(Occurrences(hay, needle))

Min(S) == CHOOSE x \in S : \A y \in S : x <= y

RECURSIVE SortedSeq(_)
SortedSeq(S) == IF S = {} THEN << >> ELSE <<Min(S)>> \o SortedSeq(S \ {Min(S)})

NoContent == <<"no such element">>

\* the text between the first occurrence of open and the next occurrence of close
ContentAfter(hay, open, close) ==
  LET starts == Occurrences(hay, open)
      from   == Min(starts) + Len(open)
      ends   == {j \in Occurrences(hay, close) : j >= from}
  IN  IF starts = {} THEN NoContent
      ELSE IF ends = {} THEN NoContent
      ELSE SubSeq(hay, from, Min(ends) - 1)

HtmlEntities ==
  { <<<<"&","a","m","p",";">>, "&">>, <<<<"&","l","t",";">>, "<">>, <<<<"&","g","t",";">>, ">">>,
    <<<<"&","q","u","o","t",";">>, "\"">>, <<<<"&","#","0","3","9",";">>, "'">> }

XmlEntities ==
  { <<<<"&","a","m","p",";">>, "&">>, <<<<"&","l","t",";">>, "<">>, <<<<"&","g","t",";">>, ">">>,
    <<<<"&","q","u","o","t",";">>, "\"">>, <<<<"&","a","p","o","s",";">>, "'">> }

\* the entities of the table that begin at position i of s (none or one)
EntitiesAt(s, i, table) ==
  IF s[i] # "&" THEN {}
  ELSE {e \in table :
          i + Len(e[1]) - 1 <= Len(s) /\ SubSeq(s, i, i + Len(e[1]) - 1) = e[1]}

\* position i of s lies inside an entity that begins before i (an entity has
\* at most 6 characters)
InsideEntity(s, i, table) ==
  \E j \in (IF i > 6 THEN i - 6 ELSE 1)..(i - 1) :
     s[j] = "&" /\ \E e \in EntitiesAt(s, j, table) : j + Len(e[1]) > i

\* one decoding pass: every entity becomes its character, all else is kept
Decode(s, table) ==
  Concat([i \in 1..Len(s) |->
            IF InsideEntity(s, i, table) THEN << >>
            ELSE IF EntitiesAt(s, i, table) # {}
                 THEN <<(CHOOSE e \in EntitiesAt(s, i, table) : TRUE)[2]>>
                 ELSE <<s[i]>>])

\* no raw markup character, and every ampersand begins an entity
NoRawSpecial(s, table) ==
  \A i \in 1..Len(s) :
     /\ s[i] \notin {"<", ">", "\"", "'"}
     /\ s[i] = "&" => EntitiesAt(s, i, table) # {}

\* content is value with each special character written as its entity, once
EscapedOnce(content, value) ==
  /\ NoRawSpecial(content, HtmlEntities)
  /\ Decode(content, HtmlEntities) = value

CharCount(s, c) == Cardinality({i \in 1..Len(s) : s[i] = c})

Provided(opt) == opt # Absent /\ opt # Some(<< >>)

Returned(f) == pc = "done" /\ fn = f

(***************************************************************************)
(* Claims about the meta tag formatter.                                    *)
(***************************************************************************)
EmittedDescription ==
  Decode(ContentAfter(output, DescriptionOpen, AttrClose), HtmlEntities)

\* C1: the description emitted by generateBasicMetaTags, entities decoded, has
\* at most 160 characters; an input of at most 160 characters (exactly 160
\* included) is emitted verbatim, a longer one as its first 157 characters
\* followed by "...".
C1_DescriptionAtMost160 ==
  Returned("generateBasicMetaTags") =>
    LET emitted == EmittedDescription
    IN  /\ Len(emitted) <= 160
        /\ Len(input.description) <= 160 => emitted = input.description
        /\ Len(input.description) > 160 =>
             emitted = SubSeq(input.description, 1, 157) \o <<".", ".", ".">>

C1_Witness ==
  /\ Returned("generateBasicMetaTags")
  /\ Len(input.description) = 161
  /\ CharCount(input.description, "&") > 0
  /\ LET emitted == EmittedDescription
     IN  Len(emitted) = 160 /\ SubSeq(emitted, 158, 160) = <<".", ".", ".">>

\* C2: the output of generateBasicMetaTags holds exactly one <title> element,
\* one <meta name="description">, one <meta name="viewport"> and one
\* <link rel="canonical">, whatever tag-like text the config strings hold.
C2_RequiredTagsOnce ==
  Returned("generateBasicMetaTags") =>
    /\ Count(output, <<"<","t","i","t","l","e",">">>) = 1
    /\ Count(output, <<"<","/","t","i","t","l","e",">">>) = 1
    /\ Count(output, <<"<","m","e","t","a"," ","n","a","m","e","=","\"","d","e","s","c","r","i",
                       "p","t","i","o","n","\"">>) = 1
    /\ Count(output, <<"<","m","e","t","a"," ","n","a","m","e","=","\"","v","i","e","w","p","o",
                       "r","t","\"">>) = 1
    /\ Count(output, <<"<","l","i","n","k"," ","r","e","l","=","\"","c","a","n","o","n","i","c",
                       "a","l","\"">>) = 1

C2_Witness ==
  /\ Returned("generateBasicMetaTags")
  /\ input.title = <<"<","t","i","t","l","e",">">>
  /\ Count(output, <<"<","t","i","t","l","e",">">>) = 1

\* C3: every config string interpolated by the three generators is escaped
\* exactly once: decoding the emitted value once gives the input back, the
\* value holds no raw < > " ' and no ampersand outside an entity, and the whole
\* output holds no < > " ' beyond those of the fixed tag syntax.
C3_BasicEscaped ==
  LET kw == input.keywords # Absent /\ input.keywords[1] # << >>
      au == Provided(input.author)
      n  == (IF kw THEN 1 ELSE 0) + (IF au THEN 1 ELSE 0)
  IN  /\ EscapedOnce(ContentAfter(output, TitleOpen, TitleClose), input.title)
      /\ EscapedOnce(ContentAfter(output, DescriptionOpen, AttrClose),
                     IF Len(input.description) <= 160 THEN input.description
                     ELSE SubSeq(input.description, 1, 157) \o <<".", ".", ".">>)
      /\ kw => EscapedOnce(ContentAfter(output, KeywordsOpen, AttrClose),
                           Join(input.keywords[1], <<",", " ">>))
      /\ au => EscapedOnce(ContentAfter(output, AuthorOpen, AttrClose), input.author[1])
      /\ EscapedOnce(ContentAfter(output, CanonicalOpen, AttrClose), input.canonicalUrl)
      /\ CharCount(output, "<") = 6 + n
      /\ CharCount(output, ">") = 6 + n
      /\ CharCount(output, "\"") = 14 + 4 * n
      /\ CharCount(output, "'") = 0

C3_OpenGraphEscaped ==
  LET n == IF Provided(input.ogSiteName) THEN 1 ELSE 0
  IN  /\ EscapedOnce(ContentAfter(output, OgTitleOpen, AttrClose), input.ogTitle)
      /\ EscapedOnce(ContentAfter(output, OgDescriptionOpen, AttrClose), input.ogDescription)
      /\ EscapedOnce(ContentAfter(output, OgImageOpen, AttrClose), input.ogImage)
      /\ EscapedOnce(ContentAfter(output, OgTypeOpen, AttrClose), input.ogType)
      /\ EscapedOnce(ContentAfter(output, OgUrlOpen, AttrClose), input.ogUrl)
      /\ n = 1 => EscapedOnce(ContentAfter(output, OgSiteNameOpen, AttrClose),
                              input.ogSiteName[1])
      /\ CharCount(output, "<") = 5 + n
      /\ CharCount(output, ">") = 5 + n
      /\ CharCount(output, "\"") = 4 * (5 + n)
      /\ CharCount(output, "'") = 0

C3_TwitterEscaped ==
  LET s == Provided(input.twitterSite)
      c == Provided(input.twitterCreator)
      n == (IF s THEN 1 ELSE 0) + (IF c THEN 1 ELSE 0)
  IN  /\ EscapedOnce(ContentAfter(output, TwitterCardOpen, AttrClose), input.twitterCard)
      /\ EscapedOnce(ContentAfter(output, TwitterTitleOpen, AttrClose), input.twitterTitle)
      /\ EscapedOnce(ContentAfter(output, TwitterDescriptionOpen, AttrClose),
                     input.twitterDescription)
      /\ EscapedOnce(ContentAfter(output, TwitterImageOpen, AttrClose), input.twitterImage)
      /\ s => EscapedOnce(ContentAfter(output, TwitterSiteOpen, AttrClose),
                          input.twitterSite[1])
      /\ c => EscapedOnce(ContentAfter(output, TwitterCreatorOpen, AttrClose),
                          input.twitterCreator[1])
      /\ CharCount(output, "<") = 4 + n
      /\ CharCount(output, ">") = 4 + n
      /\ CharCount(output, "\"") = 4 * (4 + n)
      /\ CharCount(output, "'") = 0

C3_EscapedExactlyOnce ==
  /\ Returned("generateBasicMetaTags") => C3_BasicEscaped
  /\ Returned("generateOpenGraphTags") => C3_OpenGraphEscaped
  /\ Returned("generateTwitterCardTags") => C3_TwitterEscaped

C3_Witness ==
  /\ Returned("generateTwitterCardTags")
  /\ input.twitterSite = Some(<<"\"","&","'">>)
  /\ ContentAfter(output, TwitterSiteOpen, AttrClose) = <<"&","q","u","o","t",";","&","a","m",
                                                          "p",";","&","#","0","3","9",";">>

\* C4: generateOpenGraphTags emits each of og:title, og:description, og:image,
\* og:type and og:url exactly once, and an og:site_name tag exactly when
\* ogSiteName is provided (present and not the empty string).
C4_OpenGraphComplete ==
  Returned("generateOpenGraphTags") =>
    /\ Count(output, <<"<","m","e","t","a"," ","p","r","o","p","e","r","t","y","=","\"","o","g",
                       ":","t","i","t","l","e","\"">>) = 1
    /\ Count(output, <<"<","m","e","t","a"," ","p","r","o","p","e","r","t","y","=","\"","o","g",
                       ":","d","e","s","c","r","i","p","t","i","o","n","\"">>) = 1
    /\ Count(output, <<"<","m","e","t","a"," ","p","r","o","p","e","r","t","y","=","\"","o","g",
                       ":","i","m","a","g","e","\"">>) = 1
    /\ Count(output, <<"<","m","e","t","a"," ","p","r","o","p","e","r","t","y","=","\"","o","g",
                       ":","t","y","p","e","\"">>) = 1
    /\ Count(output, <<"<","m","e","t","a"," ","p","r","o","p","e","r","t","y","=","\"","o","g",
                       ":","u","r","l","\"">>) = 1
    /\ Count(output, <<"<","m","e","t","a"," ","p","r","o","p","e","r","t","y","=","\"","o","g",
                       ":","s","i","t","e","_","n","a","m","e","\"">>)
         = (IF Provided(input.ogSiteName) THEN 1 ELSE 0)

C4_Witness ==
  /\ Returned("generateOpenGraphTags")
  /\ input.ogSiteName = Some(<<"<","m","e","t","a"," ","p","r","o","p","e","r","t","y","=","\"",
                               "o","g",":","u","r","l","\"">>)
  /\ Count(output, <<"<","m","e","t","a"," ","p","r","o","p","e","r","t","y","=","\"","o","g",
                     ":","s","i","t","e","_","n","a","m","e","\"">>) = 1
  /\ Count(output, <<"<","m","e","t","a"," ","p","r","o","p","e","r","t","y","=","\"","o","g",
                     ":","u","r","l","\"">>) = 1

\* C5: generateTwitterCardTags emits each of twitter:card, twitter:title,
\* twitter:description and twitter:image exactly once, twitter:site exactly
\* when twitterSite is provided and twitter:creator exactly when
\* twitterCreator is provided, neither decision depending on the other field.
C5_TwitterComplete ==
  Returned("generateTwitterCardTags") =>
    /\ Count(output, <<"<","m","e","t","a"," ","n","a","m","e","=","\"","t","w","i","t","t","e",
                       "r",":","c","a","r","d","\"">>) = 1
    /\ Count(output, <<"<","m","e","t","a"," ","n","a","m","e","=","\"","t","w","i","t","t","e",
                       "r",":","t","i","t","l","e","\"">>) = 1
    /\ Count(output, <<"<","m","e","t","a"," ","n","a","m","e","=","\"","t","w","i","t","t","e",
                       "r",":","d","e","s","c","r","i","p","t","i","o","n","\"">>) = 1
    /\ Count(output, <<"<","m","e","t","a"," ","n","a","m","e","=","\"","t","w","i","t","t","e",
                       "r",":","i","m","a","g","e","\"">>) = 1
    /\ Count(output, <<"<","m","e","t","a"," ","n","a","m","e","=","\"","t","w","i","t","t","e",
                       "r",":","s","i","t","e","\"">>)
         = (IF Provided(input.twitterSite) THEN 1 ELSE 0)
    /\ Count(output, <<"<","m","e","t","a"," ","n","a","m","e","=","\"","t","w","i","t","t","e",
                       "r",":","c","r","e","a","t","o","r","\"">>)
         = (IF Provided(input.twitterCreator) THEN 1 ELSE 0)

C5_Witness ==
  /\ Returned("generateTwitterCardTags")
  /\ input.twitterSite = Absent
  /\ Provided(input.twitterCreator)
  /\ Count(output, <<"<","m","e","t","a"," ","n","a","m","e","=","\"","t","w","i","t","t","e",
                     "r",":","s","i","t","e","\"">>) = 0
  /\ Count(output, <<"<","m","e","t","a"," ","n","a","m","e","=","\"","t","w","i","t","t","e",
                     "r",":","c","r","e","a","t","o","r","\"">>) = 1

\* C6: generateBasicMetaTags omits the keywords tag when the keyword list is
\* absent or empty, and for every keyword list it never emits a keywords tag
\* whose content attribute is empty.
C6_NoEmptyKeywordsTag ==
  Returned("generateBasicMetaTags") =>
    /\ input.keywords \in {Absent, Some(<< >>)} =>
         Count(output, <<"<","m","e","t","a"," ","n","a","m","e","=","\"","k","e","y","w","o",
                         "r","d","s","\"">>) = 0
    /\ Count(output, <<"<","m","e","t","a"," ","n","a","m","e","=","\"","k","e","y","w","o","r",
                       "d","s","\""," ","c","o","n","t","e","n","t","=","\"","\"",">">>) = 0

Positions(needle) == SortedSeq(Occurrences(output, needle))

\* the text of the i-th element named by its opening and closing tag
ElementText(open, close, i) ==
  SubSeq(output, Positions(open)[i] + Len(open), Positions(close)[i] - 1)

SitemapPrefix ==
  <<"<","?","x","m","l"," ","v","e","r","s","i","o","n","=","\"","1",".","0","\""," ","e","n",
    "c","o","d","i","n","g","=","\"","U","T","F","-","8","\"","?",">","\n","<","u","r","l","s",
    "e","t"," ","x","m","l","n","s","=","\"","h","t","t","p",":","/","/","w","w","w",".","s",
    "i","t","e","m","a","p","s",".","o","r","g","/","s","c","h","e","m","a","s","/","s","i","t",
    "e","m","a","p","/","0",".","9","\"",">","\n">>

\* C8: for a list of N entries generateSitemap emits the XML declaration, one
\* <urlset> root with the sitemap-protocol namespace, then exactly N <url>
\* blocks in input order, each holding one <loc>, <lastmod>, <changefreq> and
\* <priority> in that order; each of the five element kinds occurs N times.
C8_SitemapStructure ==
  Returned("generateSitemap") =>
    LET n     == Len(input)
        url   == Positions(<<"<","u","r","l",">">>)
        urlE  == Positions(<<"<","/","u","r","l",">">>)
        loc   == Positions(<<"<","l","o","c",">">>)
        locE  == Positions(<<"<","/","l","o","c",">">>)
        mod   == Positions(<<"<","l","a","s","t","m","o","d",">">>)
        modE  == Positions(<<"<","/","l","a","s","t","m","o","d",">">>)
        freq  == Positions(<<"<","c","h","a","n","g","e","f","r","e","q",">">>)
        freqE == Positions(<<"<","/","c","h","a","n","g","e","f","r","e","q",">">>)
        pri   == Positions(<<"<","p","r","i","o","r","i","t","y",">">>)
        priE  == Positions(<<"<","/","p","r","i","o","r","i","t","y",">">>)
    IN  /\ SubSeq(output, 1, Len(SitemapPrefix)) = SitemapPrefix
        /\ Count(output, <<"<","?","x","m","l">>) = 1
        /\ Count(output, <<"<","u","r","l","s","e","t">>) = 1
        /\ Positions(<<"<","/","u","r","l","s","e","t",">">>) = <<Len(output) - 8>>
        /\ \A s \in {url, urlE, loc, locE, mod, modE, freq, freqE, pri, priE} : Len(s) = n
        /\ \A i \in 1..n :
              /\ url[i] < loc[i] /\ loc[i] < locE[i]
              /\ locE[i] < mod[i] /\ mod[i] < modE[i]
              /\ modE[i] < freq[i] /\ freq[i] < freqE[i]
              /\ freqE[i] < pri[i] /\ pri[i] < priE[i]
              /\ priE[i] < urlE[i]
              /\ i < n => urlE[i] < url[i + 1]
              /\ Decode(ElementText(<<"<","l","o","c",">">>, <<"<","/","l","o","c",">">>, i), XmlEntities) = input[i].loc
              /\ ElementText(<<"<","l","a","s","t","m","o","d",">">>, <<"<","/","l","a","s","t","m","o","d",">">>, i) = input[i].lastmod
              /\ ElementText(<<"<","c","h","a","n","g","e","f","r","e","q",">">>, <<"<","/","c","h","a","n","g","e","f","r","e",
                                                  "q",">">>, i) = input[i].changefreq

C8_Witness ==
  /\ Returned("generateSitemap")
  /\ Len(input) = 2
  /\ input[1].loc = <<"h","t","t","p","s",":","/","/","x",".","m","e","/","<","l","o","c",">">>
  /\ input[2].changefreq = <<"d","a","i","l","y">>
  /\ Count(output, <<"<","l","o","c",">">>) = 2
  /\ ElementText(<<"<","c","h","a","n","g","e","f","r","e","q",">">>, <<"<","/","c","h","a","n","g","e","f","r","e","q",">">>, 2) = <<"d","a","i","l","y">>

\* the entity a character is written as in XML text, or the character itself
XmlEscaped(c) ==
  IF \E e \in XmlEntities : e[2] = c
  THEN (CHOOSE e \in XmlEntities : e[2] = c)[1]
  ELSE <<c>>

\* C9: the <loc> text emitted by generateSitemap is loc with each & < > " '
\* replaced exactly once by &amp; &lt; &gt; &quot; &apos; (no ampersand of an
\* entity just produced is escaped again), so one decoding pass gives loc back.
C9_LocEscapedOnce ==
  Returned("generateSitemap") =>
    \A i \in 1..Len(input) :
       LET text == ElementText(<<"<","l","o","c",">">>, <<"<","/","l","o","c",">">>, i)
       IN  /\ text = Concat([k \in 1..Len(input[i].loc) |-> XmlEscaped(input[i].loc[k])])
           /\ Decode(text, XmlEntities) = input[i].loc

C9_Witness ==
  /\ Returned("generateSitemap")
  /\ Len(input) = 1
  /\ input[1].loc = <<"h","t","t","p","s",":","/","/","x",".","m","e","/","\"","'","<","/","u",
                      "r","l",">">>
  /\ ElementText(<<"<","l","o","c",">">>, <<"<","/","l","o","c",">">>, 1) = <<"h","t","t","p","s",":","/","/","x",".","m",
                                                 "e","/","&","q","u","o","t",";","&","a","p",
                                                 "o","s",";","&","l","t",";","/","u","r","l",
                                                 "&","g","t",";">>

\* the decimal texts of the priorities 0, 0.1, ..., 0.9, 1
PriorityTextsInRange ==
  {<<"0">>, <<"1">>} \cup {<<"0", ".", d>> : d \in {"1", "2", "3", "4", "5", "6", "7", "8", "9"}}

DigitValue(c) == CHOOSE d \in 0..9 : DigitChars[d + 1] = c

\* the number of tenths a decimal text with at most one fraction digit denotes
RECURSIVE ParseNat(_)
ParseNat(s) ==
  IF s = << >> THEN 0 ELSE 10 * ParseNat(SubSeq(s, 1, Len(s) - 1)) + DigitValue(s[Len(s)])

ParseTenths(s) ==
  LET neg  == s # << >> /\ s[1] = "-"
      body == IF neg THEN Tail(s) ELSE s
      dots == {k \in 1..Len(body) : body[k] = "."}
      abs  == IF dots = {} THEN 10 * ParseNat(body)
              ELSE LET k == Min(dots)
                   IN  10 * ParseNat(SubSeq(body, 1, k - 1))
                       + ParseNat(SubSeq(body, k + 1, Len(body)))
  IN  IF neg THEN -abs ELSE abs

\* C10, as stated: every <priority> value emitted by generateSitemap lies in
\* [0,1], an input priority below 0 or above 1 being clamped to the nearer bound.
C10_PriorityClamped ==
  Returned("generateSitemap") =>
    \A i \in 1..Len(input) :
       LET text == ElementText(<<"<","p","r","i","o","r","i","t","y",">">>, <<"<","/","p","r","i","o","r","i","t","y",">">>, i)
       IN  /\ text \in PriorityTextsInRange
           /\ input[i].priority < 0 => text = <<"0">>
           /\ input[i].priority > 10 => text = <<"1">>

\* C10, amended: every <priority> value emitted by generateSitemap is the
\* input priority written unchanged, without clamping; it lies in [0,1]
\* exactly when the input priority does.
C10_PriorityUnchanged ==
  Returned("generateSitemap") =>
    \A i \in 1..Len(input) :
       LET text == ElementText(<<"<","p","r","i","o","r","i","t","y",">">>, <<"<","/","p","r","i","o","r","i","t","y",">">>, i)
       IN  /\ ParseTenths(text) = input[i].priority
           /\ text \in PriorityTextsInRange <=> input[i].priority \in 0..10

C10_Witness ==
  /\ Returned("generateSitemap")
  /\ Len(input) = 2
  /\ input[1].priority = 15
  /\ input[2].priority = -5
  /\ ElementText(<<"<","p","r","i","o","r","i","t","y",">">>, <<"<","/","p","r","i","o","r","i","t","y",">">>, 1) = <<"1", ".", "5">>
  /\ ElementText(<<"<","p","r","i","o","r","i","t","y",">">>, <<"<","/","p","r","i","o","r","i","t","y",">">>, 2) = <<"-", "0", ".", "5">>

(***************************************************************************)
(* Claims about the robots directive formatter.                            *)
(***************************************************************************)
NewLinePositions == SortedSeq({i \in 1..Len(output) : output[i] = "\n"})

\* output.split("\n")
OutputLines ==
  LET nl == NewLinePositions
  IN  [k \in 1..(Len(nl) + 1) |->
         SubSeq(output,
                IF k = 1 THEN 1 ELSE nl[k - 1] + 1,
                IF k = Len(nl) + 1 THEN Len(output) ELSE nl[k] - 1)]

\* C11: generateRobotsTxt(sitemapUrl) returns exactly the text
\* "User-agent: *\nAllow: /\n\nSitemap: " followed by sitemapUrl unchanged, with
\* nothing before or after it, so that equal arguments give byte-identical output.
C11_RobotsExactText ==
  Returned("generateRobotsTxt") =>
    LET text == <<"U","s","e","r","-","a","g","e","n","t",":"," ","*","\n","A","l","l","o","w",
                  ":"," ","/","\n","\n","S","i","t","e","m","a","p",":"," ">>
    IN  /\ Len(output) = Len(text) + Len(input)
        /\ SubSeq(output, 1, Len(text)) = text
        /\ SubSeq(output, Len(text) + 1, Len(output)) = input

C11_Witness ==
  /\ Returned("generateRobotsTxt")
  /\ input = <<"h","t","t","p","s",":","/","/","s","a","n","d","e","e","p","k","o","m","m","i",
               "n","e","n","i",".","m","e","/","s","i","t","e","m","a","p",".","x","m","l">>
  /\ output = <<"U","s","e","r","-","a","g","e","n","t",":"," ","*","\n","A","l","l","o","w",
                ":"," ","/","\n","\n","S","i","t","e","m","a","p",":"," ","h","t","t","p","s",
                ":","/","/","s","a","n","d","e","e","p","k","o","m","m","i","n","e","n","i",".",
                "m","e","/","s","i","t","e","m","a","p",".","x","m","l">>

\* C12 as stated: the body is the line "User-agent: *", a blank line, the line
\* "Allow: /", a blank line, the line "Sitemap: <sitemapUrl>".
C12_BlankLineBetweenEachPair ==
  Returned("generateRobotsTxt") =>
    OutputLines = << <<"U","s","e","r","-","a","g","e","n","t",":"," ","*">>, << >>, <<"A","l","l","o","w",":"," ","/">>, << >>, <<"S","i","t","e","m","a","p",":"," ">> \o input >>

\* C12: the body is the line "User-agent: *", directly followed by the line
\* "Allow: /", then one blank line, then the line "Sitemap: <sitemapUrl>".
C12_RobotsLayout ==
  Returned("generateRobotsTxt") =>
    OutputLines = << <<"U","s","e","r","-","a","g","e","n","t",":"," ","*">>, <<"A","l","l","o","w",":"," ","/">>, << >>, <<"S","i","t","e","m","a","p",":"," ">> \o input >>

C12_Witness ==
  /\ Returned("generateRobotsTxt")
  /\ input = <<"h","t","t","p",":","/","/","l","o","c","a","l","h","o","s","t",":","8","7","8",
               "7","/","s","i","t","e","m","a","p",".","x","m","l">>
  /\ Len(OutputLines) = 4
  /\ OutputLines[4] = <<"S","i","t","e","m","a","p",":"," ","h","t","t","p",":","/","/","l","o",
                        "c","a","l","h","o","s","t",":","8","7","8","7","/","s","i","t","e","m",
                        "a","p",".","x","m","l">>

(***************************************************************************)
(* Claims about the structured data formatters.  The emitted text is read  *)
(* back with a JSON parser (JSON.parse), and the claims are stated on the  *)
(* parsed value.                                                           *)
(***************************************************************************)
JsonError == [type |-> "error", value |-> << >>]

EndOfText == "end of text"

CharAt(s, i) == IF i \in 1..Len(s) THEN s[i] ELSE EndOfText

RECURSIVE SkipSpace(_, _)
SkipSpace(s, i) == IF CharAt(s, i) \in {" ", "\n"} THEN SkipSpace(s, i + 1) ELSE i

\* the characters of a string literal from position i, just after its opening quote
RECURSIVE ParseChars(_, _, _)
ParseChars(s, i, acc) ==
  LET c == CharAt(s, i)
      d == CharAt(s, i + 1)
  IN  CASE c = EndOfText -> [value |-> JsonError, next |-> i]
        [] c = "\"" -> [value |-> Str(acc), next |-> i + 1]
        [] c = "\\" ->
             IF d \in {"\"", "\\", "n"}
             THEN ParseChars(s, i + 2, Append(acc, IF d = "n" THEN "\n" ELSE d))
             ELSE [value |-> JsonError, next |-> i]
        [] c = "\n" -> [value |-> JsonError, next |-> i]
        [] OTHER -> ParseChars(s, i + 1, Append(acc, c))

RECURSIVE ParseValue(_, _), ParseElements(_, _, _), ParseMembers(_, _, _)
ParseValue(s, from) ==
  LET i == SkipSpace(s, from)
      c == CharAt(s, i)
      j == SkipSpace(s, i + 1)
  IN  CASE c = "\"" -> ParseChars(s, i + 1, << >>)
        [] c = "[" -> IF CharAt(s, j) = "]" THEN [value |-> Arr(<< >>), next |-> j + 1]
                      ELSE ParseElements(s, j, << >>)
        [] c = "{" -> IF CharAt(s, j) = "}" THEN [value |-> Obj(<< >>), next |-> j + 1]
                      ELSE ParseMembers(s, j, << >>)
        [] OTHER -> [value |-> JsonError, next |-> i]

ParseElements(s, from, acc) ==
  LET element == ParseValue(s, from)
      j       == SkipSpace(s, element.next)
      c       == CharAt(s, j)
  IN  IF element.value = JsonError THEN element
      ELSE IF c = "," THEN ParseElements(s, j + 1, Append(acc, element.value))
      ELSE IF c = "]" THEN [value |-> Arr(Append(acc, element.value)), next |-> j + 1]
      ELSE [value |-> JsonError, next |-> j]

ParseMembers(s, from, acc) ==
  LET i     == SkipSpace(s, from)
      key   == IF CharAt(s, i) = "\"" THEN ParseChars(s, i + 1, << >>)
               ELSE [value |-> JsonError, next |-> i]
      colon == SkipSpace(s, key.next)
      val   == IF key.value # JsonError /\ CharAt(s, colon) = ":"
               THEN ParseValue(s, colon + 1)
               ELSE [value |-> JsonError, next |-> colon]
      j     == SkipSpace(s, val.next)
      c     == CharAt(s, j)
      more  == Append(acc, <<key.value.value, val.value>>)
  IN  IF val.value = JsonError THEN val
      ELSE IF c = "," THEN ParseMembers(s, j + 1, more)
      ELSE IF c = "}" THEN [value |-> Obj(more), next |-> j + 1]
      ELSE [value |-> JsonError, next |-> j]

\* JSON.parse: one value, and nothing but white space after it
JSONParse(s) ==
  LET parsed == ParseValue(s, 1)
  IN  IF parsed.value # JsonError /\ SkipSpace(s, parsed.next) = Len(s) + 1
      THEN parsed.value
      ELSE JsonError

IsArray(v) == v.type = "array"

IsObject(v) == v.type = "object"

\* the positions of the members of an object named key
MembersNamed(object, key) == {i \in 1..Len(object.value) : object.value[i][1] = key}

\* "key" in object, once
Has(object, key) == IsObject(object) /\ Cardinality(MembersNamed(object, key)) = 1

Lacks(object, key) == IsObject(object) /\ MembersNamed(object, key) = {}

\* object[key]
Get(object, key) ==
  IF Has(object, key) THEN object.value[CHOOSE i \in MembersNamed(object, key) : TRUE][2]
  ELSE JsonError

\* object[key] === text
HasString(object, key, text) == Get(object, key) = Str(text)

NonEmptyString(opt) == opt # Absent /\ opt[1] # << >>

SchemaFunctions ==
  {"generateWorkExperienceSchema", "generateCreativeWorkSchema", "generateEducationSchema"}

\* the input list of a list formatter, and the fixed @type of its elements
InputRecords == IF fn = "generateCreativeWorkSchema" THEN input.projects ELSE input

FixedType ==
  CASE fn = "generateWorkExperienceSchema" -> <<"W","o","r","k","E","x","p","e","r","i","e","n",
                                                "c","e">>
    [] fn = "generateCreativeWorkSchema"   -> <<"C","r","e","a","t","i","v","e","W","o","r","k">>
    [] fn = "generateEducationSchema"      -> <<"E","d","u","c","a","t","i","o","n","a","l","O",
                                                "c","c","u","p","a","t","i","o","n","a","l","C",
                                                "r","e","d","e","n","t","i","a","l">>

\* the element is built from the record: its required fields carry the record's values
BuiltFrom(element, record) ==
  CASE fn = "generateWorkExperienceSchema" ->
         /\ HasString(element, <<"n","a","m","e">>, record.role)
         /\ HasString(element, <<"d","e","s","c","r","i","p","t","i","o","n">>, record.description)
         /\ HasString(element, <<"s","t","a","r","t","D","a","t","e">>, record.startDate)
         /\ HasString(Get(element, <<"e","m","p","l","o","y","e","r">>), <<"n","a","m","e">>, record.company)
    [] fn = "generateCreativeWorkSchema" ->
         /\ HasString(element, <<"n","a","m","e">>, record.name)
         /\ HasString(element, <<"d","e","s","c","r","i","p","t","i","o","n">>, record.description)
         /\ HasString(Get(element, <<"a","u","t","h","o","r">>), <<"n","a","m","e">>, input.authorName)
    [] fn = "generateEducationSchema" ->
         /\ HasString(element, <<"n","a","m","e">>, record.degree \o <<" ","i","n"," ">> \o record.field)
         /\ HasString(Get(element, <<"r","e","c","o","g","n","i","z","e","d","B","y">>), <<"n","a","m","e">>, record.institution)

\* C13: each list formatter returns a JSON array as long as its input list, whose
\* i-th element is built from the i-th input record, and every element has @context
\* "https://schema.org" and the one fixed @type of the formatter.
C13_ArrayPerRecord ==
  (pc = "done" /\ fn \in SchemaFunctions) =>
    LET schemas == JSONParse(output)
    IN  /\ IsArray(schemas)
        /\ Len(schemas.value) = Len(InputRecords)
        /\ \A i \in 1..Len(InputRecords) :
             /\ IsObject(schemas.value[i])
             /\ HasString(schemas.value[i], <<"@","c","o","n","t","e","x","t">>, <<"h","t","t","p","s",":","/","/","s",
                                                             "c","h","e","m","a",".","o","r","g">>)
             /\ HasString(schemas.value[i], <<"@","t","y","p","e">>, FixedType)
             /\ BuiltFrom(schemas.value[i], InputRecords[i])

C13_Witness ==
  /\ Returned("generateEducationSchema")
  /\ Len(input) = 2
  /\ input[1] # input[2]
  /\ Len(JSONParse(output).value) = 2
  /\ HasString(JSONParse(output).value[2], <<"n","a","m","e">>, <<"M",".","S","."," ","i","n"," ","A","I">>)

\* C14: the object emitted for an experience record contains endDate, employer.url,
\* location and skills each exactly when the corresponding input field (endDate,
\* companyUrl, location, skills) is present and non-empty, whatever the other three
\* are, and then with the input's value.
C14_OptionalFieldsIndependent ==
  Returned("generateWorkExperienceSchema") =>
    LET schemas == JSONParse(output)
    IN  /\ IsArray(schemas)
        /\ Len(schemas.value) = Len(input)
        /\ \A i \in 1..Len(input) :
             LET exp      == input[i]
                 schema   == schemas.value[i]
                 employer == Get(schema, <<"e","m","p","l","o","y","e","r">>)
             IN  /\ IF NonEmptyString(exp.endDate)
                    THEN HasString(schema, <<"e","n","d","D","a","t","e">>, exp.endDate[1])
                    ELSE Lacks(schema, <<"e","n","d","D","a","t","e">>)
                 /\ IF NonEmptyString(exp.companyUrl)
                    THEN HasString(employer, <<"u","r","l">>, exp.companyUrl[1])
                    ELSE Lacks(employer, <<"u","r","l">>)
                 /\ IF exp.location # << >>
                    THEN HasString(schema, <<"l","o","c","a","t","i","o","n">>, exp.location)
                    ELSE Lacks(schema, <<"l","o","c","a","t","i","o","n">>)
                 /\ IF exp.skills # Absent /\ exp.skills[1] # << >>
                    THEN Get(schema, <<"s","k","i","l","l","s">>) = StrArray(exp.skills[1])
                    ELSE Lacks(schema, <<"s","k","i","l","l","s">>)

C14_Witness ==
  /\ Returned("generateWorkExperienceSchema")
  /\ Len(input) = 1
  /\ input[1].endDate = Absent
  /\ input[1].companyUrl = Some(<<"h","t","t","p","s",":","/","/","a","c","m","e",".","i","o">>)
  /\ input[1].location = << >>
  /\ input[1].skills = Some(<<<<"G","o">>>>)
  /\ HasString(Get(JSONParse(output).value[1], <<"e","m","p","l","o","y","e","r">>), <<"u","r","l">>, <<"h","t","t","p","s",":","/","/","a",
                                                                           "c","m","e",".","i","o">>)
  /\ Lacks(JSONParse(output).value[1], <<"e","n","d","D","a","t","e">>)

\* C15: generatePersonSchema emits one object with @type "Person" that always carries
\* name, jobTitle, url (= siteUrl), email, telephone (= phone), a PostalAddress built
\* from location, and sameAs = [github, linkedin] in that order; it carries image
\* exactly when person.image is present (a non-empty string) and description exactly
\* when person.bio is present (a non-empty string).
C15_PersonComplete ==
  Returned("generatePersonSchema") =>
    LET schema  == JSONParse(output)
        data    == input.data
        address == Get(schema, <<"a","d","d","r","e","s","s">>)
    IN  /\ IsObject(schema)
        /\ HasString(schema, <<"@","c","o","n","t","e","x","t">>, <<"h","t","t","p","s",":","/","/","s","c","h","e",
                                              "m","a",".","o","r","g">>)
        /\ HasString(schema, <<"@","t","y","p","e">>, <<"P","e","r","s","o","n">>)
        /\ HasString(schema, <<"n","a","m","e">>, data.name)
        /\ HasString(schema, <<"j","o","b","T","i","t","l","e">>, data.jobTitle)
        /\ HasString(schema, <<"u","r","l">>, input.siteUrl)
        /\ HasString(schema, <<"e","m","a","i","l">>, data.email)
        /\ HasString(schema, <<"t","e","l","e","p","h","o","n","e">>, data.phone)
        /\ HasString(address, <<"@","t","y","p","e">>, <<"P","o","s","t","a","l","A","d","d","r","e","s","s">>)
        /\ HasString(address, <<"a","d","d","r","e","s","s","L","o","c","a","l","i","t","y">>, data.location.city)
        /\ HasString(address, <<"a","d","d","r","e","s","s","R","e","g","i","o","n">>, data.location.region)
        /\ HasString(address, <<"a","d","d","r","e","s","s","C","o","u","n","t","r","y">>, data.location.country)
        /\ Get(schema, <<"s","a","m","e","A","s">>)
             = Arr(<<Str(data.socialProfiles.github), Str(data.socialProfiles.linkedin)>>)
        /\ IF NonEmptyString(data.image)
           THEN HasString(schema, <<"i","m","a","g","e">>, data.image[1])
           ELSE Lacks(schema, <<"i","m","a","g","e">>)
        /\ IF NonEmptyString(data.bio)
           THEN HasString(schema, <<"d","e","s","c","r","i","p","t","i","o","n">>, data.bio[1])
           ELSE Lacks(schema, <<"d","e","s","c","r","i","p","t","i","o","n">>)

C15_Witness ==
  /\ Returned("generatePersonSchema")
  /\ input.data.image = Absent
  /\ input.data.bio = Some(<<"I"," ","b","u","i","l","d"," ","\"","A","I","\""," ","s","y","s",
                             "t","e","m","s">>)
  /\ Lacks(JSONParse(output), <<"i","m","a","g","e">>)
  /\ HasString(JSONParse(output), <<"d","e","s","c","r","i","p","t","i","o","n">>, <<"I"," ","b","u","i","l","d"," ","\"","A",
                                                      "I","\""," ","s","y","s","t","e","m","s">>)

\* the description C16 lays out for an education record: the fragments that are
\* present, in order, joined by one space; no description when there is none
ExpectedEducationDescription(edu) ==
  LET first  == IF edu.degree # << >> /\ edu.field # << >>
                THEN <<edu.degree \o <<" ","i","n"," ">> \o edu.field>> ELSE << >>
      second == IF edu.institution # << >>
                THEN <<<<"f","r","o","m"," ">> \o edu.institution>> ELSE << >>
      third  == IF NonEmptyString(edu.location)
                THEN <<<<"(">> \o edu.location[1] \o <<")">>>> ELSE << >>
      parts  == first \o second \o third
  IN  IF parts = << >> THEN Absent
      ELSE Some(Concat([k \in 1..Len(parts) |->
                          IF k = 1 THEN parts[k] ELSE <<" ">> \o parts[k]]))

\* C16: for every education record the emitted object has name "<degree> in <field>",
\* recognizedBy an Organization named after institution, grade exactly when gpa is
\* present (non-empty), and description the space-joined fragments "<degree> in
\* <field>" (both present), "from <institution>" (present), "(<location>)" (present),
\* in this order, with no description when no fragment is present.
C16_EducationFields ==
  Returned("generateEducationSchema") =>
    LET schemas == JSONParse(output)
    IN  /\ IsArray(schemas)
        /\ Len(schemas.value) = Len(input)
        /\ \A i \in 1..Len(input) :
             LET edu      == input[i]
                 schema   == schemas.value[i]
                 expected == ExpectedEducationDescription(edu)
             IN  /\ HasString(schema, <<"n","a","m","e">>, edu.degree \o <<" ","i","n"," ">> \o edu.field)
                 /\ HasString(Get(schema, <<"r","e","c","o","g","n","i","z","e","d","B","y">>), <<"@","t","y","p","e">>, <<"O","r","g","a","n","i","z","a","t",
                                                                            "i","o","n">>)
                 /\ HasString(Get(schema, <<"r","e","c","o","g","n","i","z","e","d","B","y">>), <<"n","a","m","e">>, edu.institution)
                 /\ IF NonEmptyString(edu.gpa)
                    THEN HasString(schema, <<"g","r","a","d","e">>, edu.gpa[1])
                    ELSE Lacks(schema, <<"g","r","a","d","e">>)
                 /\ IF expected = Absent
                    THEN Lacks(schema, <<"d","e","s","c","r","i","p","t","i","o","n">>)
                    ELSE HasString(schema, <<"d","e","s","c","r","i","p","t","i","o","n">>, expected[1])

C16_Witness ==
  /\ Returned("generateEducationSchema")
  /\ Len(input) = 1
  /\ input[1].degree = << >>
  /\ input[1].institution = <<"K","L"," ","U","n","i","v","e","r","s","i","t","y">>
  /\ input[1].location = Some(<<"V","a","d","d","e","s","w","a","r","a","m",","," ","I","n","d",
                                "i","a">>)
  /\ HasString(JSONParse(output).value[1], <<"d","e","s","c","r","i","p","t","i","o","n">>,
               <<"f","r","o","m"," ","K","L"," ","U","n","i","v","e","r","s","i","t","y"," ",
                 "(","V","a","d","d","e","s","w","a","r","a","m",","," ","I","n","d","i","a",")">>)

(***************************************************************************)
(* Claims about the configuration resolver.                                *)
(***************************************************************************)
\* the values of a key in the layers above the default, highest first
Layers(key) ==
  << IF input.env = Absent THEN Absent ELSE input.env[1][key],
     IF input.process = Absent THEN Absent ELSE input.process[1][key] >>

\* the first non-empty value of the layers, else the default
FirstNonEmpty(key, default) ==
  LET nonEmpty == {k \in 1..2 : NonEmptyString(Layers(key)[k])}
  IN  IF nonEmpty = {} THEN default ELSE Layers(key)[Min(nonEmpty)][1]

\* C17: for each configuration key the resolved value is the caller-supplied binding
\* if it is non-empty, otherwise the process environment variable if it is non-empty,
\* otherwise the hardcoded default; an empty string in either of the first two layers
\* never wins over a lower layer.
C17_FirstNonEmptyWins ==
  Returned("createSEOConfig") =>
    /\ output.site.url = FirstNonEmpty("SITE_URL", <<"h","t","t","p","s",":","/","/","s","a",
                                                     "n","d","e","e","p","k","o","m","m","i",
                                                     "n","e","n","i",".","m","e">>)
    /\ output.site.domain = FirstNonEmpty("SITE_DOMAIN", <<"s","a","n","d","e","e","p","k","o",
                                                           "m","m","i","n","e","n","i",".","m",
                                                           "e">>)
    /\ output.analytics.googleAnalyticsId = FirstNonEmpty("GA_MEASUREMENT_ID", << >>)
    /\ output.analytics.googleSearchConsoleId = FirstNonEmpty("GSC_VERIFICATION_ID", << >>)
    /\ (output.environment = <<"p","r","o","d","u","c","t","i","o","n">>)
         <=> (FirstNonEmpty("ENVIRONMENT", <<"p","r","o","d","u","c","t","i","o","n">>) = <<"p","r","o","d","u","c","t","i","o",
                                                                "n">>)

C17_Witness ==
  /\ Returned("createSEOConfig")
  /\ input.env # Absent
  /\ input.process # Absent
  /\ input.env[1].SITE_URL = Some(<< >>)
  /\ input.process[1].SITE_URL = Some(<<"h","t","t","p","s",":","/","/","p",".","d","e","v">>)
  /\ input.env[1].SITE_DOMAIN = Some(<<"b",".","d","e","v">>)
  /\ input.process[1].SITE_DOMAIN = Some(<<"p",".","d","e","v">>)
  /\ output.site.url = <<"h","t","t","p","s",":","/","/","p",".","d","e","v">>
  /\ output.site.domain = <<"b",".","d","e","v">>

\* C18: createSEOConfig(env).environment is "production" exactly when the resolved
\* ENVIRONMENT value (default "production") is the string "production", and
\* "development" otherwise; analytics.enableDebug is true exactly when environment
\* is "development".
C18_EnvironmentFlag ==
  Returned("createSEOConfig") =>
    LET resolved == FirstNonEmpty("ENVIRONMENT", <<"p","r","o","d","u","c","t","i","o","n">>)
    IN  /\ output.environment = (IF resolved = <<"p","r","o","d","u","c","t","i","o","n">> THEN <<"p","r","o","d","u","c","t","i","o",
                                                                      "n">>
                                 ELSE <<"d","e","v","e","l","o","p","m","e","n","t">>)
        /\ output.analytics.enableDebug \in BOOLEAN
        /\ output.analytics.enableDebug <=> (output.environment = <<"d","e","v","e","l","o","p","m","e",
                                                                    "n","t">>)

C18_Witness ==
  /\ Returned("createSEOConfig")
  /\ input.env # Absent
  /\ input.env[1].ENVIRONMENT = Some(<<"P","r","o","d","u","c","t","i","o","n">>)
  /\ input.process # Absent
  /\ input.process[1].ENVIRONMENT = Some(<<"p","r","o","d","u","c","t","i","o","n">>)
  /\ output.environment = <<"d","e","v","e","l","o","p","m","e","n","t">>
  /\ output.analytics.enableDebug

(***************************************************************************)
(* Claims about the cache headers middleware and the application.          *)
(***************************************************************************)
\* the text after the last "." of the path, in lower case; none if there is no "."
ExtensionOf(path) ==
  LET dots == {i \in 1..Len(path) : path[i] = "."}
      last == CHOOSE i \in dots : \A j \in dots : j <= i
  IN  IF dots = {} THEN Absent ELSE Some(ToLowerCase(SubSeq(path, last + 1, Len(path))))

ImageExtensions == {<<"j","p","g">>, <<"j","p","e","g">>, <<"p","n","g">>, <<"g","i","f">>, <<"w","e","b","p">>, <<"s","v","g">>, <<"i","c","o">>}

FontExtensions == {<<"w","o","f","f">>, <<"w","o","f","f","2">>, <<"t","t","f">>, <<"e","o","t">>}

IsStaticAsset(path) ==
  /\ ExtensionOf(path) # Absent
  /\ ExtensionOf(path)[1] \in ImageExtensions \cup FontExtensions \cup {<<"c","s","s">>, <<"j","s">>}

CacheControlSets == Cardinality({k \in 1..Len(output.set) : output.set[k] = "cache-control"})

\* C19: cacheHeaders sets Cache-Control to "public, max-age=31536000, immutable" when
\* the path ends in an image, font, .css or .js extension, to "public, max-age=3600,
\* must-revalidate" when the path is the root document, and to "public, max-age=86400"
\* when the path is /sitemap.xml or /robots.txt; at most one of these directives is
\* applied to a response, and a path of no rule keeps the Cache-Control it had.
C19_CacheControlByPath ==
  Returned("cacheHeaders") =>
    LET cacheControl == output.headers["cache-control"]
    IN  /\ IsStaticAsset(input.path)
             => cacheControl = Some(<<"p","u","b","l","i","c",","," ","m","a","x","-","a","g",
                                      "e","=","3","1","5","3","6","0","0","0",","," ","i","m",
                                      "m","u","t","a","b","l","e">>)
        /\ input.path = <<"/">>
             => cacheControl = Some(<<"p","u","b","l","i","c",","," ","m","a","x","-","a","g",
                                      "e","=","3","6","0","0",","," ","m","u","s","t","-","r",
                                      "e","v","a","l","i","d","a","t","e">>)
        /\ input.path \in {<<"/","s","i","t","e","m","a","p",".","x","m","l">>, <<"/","r","o","b","o","t","s",".","t","x","t">>}
             => cacheControl = Some(<<"p","u","b","l","i","c",","," ","m","a","x","-","a","g",
                                      "e","=","8","6","4","0","0">>)
        /\ CacheControlSets <= 1
        /\ CacheControlSets = 0 => cacheControl = input.res.headers["cache-control"]
        /\ output.status = input.res.status

C19_Witness ==
  /\ Returned("cacheHeaders")
  /\ input.path = <<"/","f",".","W","O","F","F","2">>
  /\ input.res.headers["cache-control"] = Some(<<"n","o","-","s","t","o","r","e">>)
  /\ output.headers["cache-control"] = Some(<<"p","u","b","l","i","c",","," ","m","a","x","-",
                                              "a","g","e","=","3","1","5","3","6","0","0","0",
                                              ","," ","i","m","m","u","t","a","b","l","e">>)
  /\ CacheControlSets = 1

\* C20: every HTTP response produced by the application, for any request path,
\* carries both X-Content-Type-Options: nosniff and X-Frame-Options: SAMEORIGIN.
C20_SecurityHeadersOnEveryResponse ==
  Returned("appRequest") =>
    /\ output.headers["x-content-type-options"] = Some(<<"n","o","s","n","i","f","f">>)
    /\ output.headers["x-frame-options"] = Some(<<"S","A","M","E","O","R","I","G","I","N">>)

\* C21: every HTTP response of the application, for any request path, carries a
\* Cache-Control header.
C21_CacheControlOnEveryResponse ==
  Returned("appRequest") => output.headers["cache-control"] # Absent

\* what the application would answer GET /sitemap.xml with
IsSitemapResponse(res) ==
  /\ res.status = 200
  /\ res.headers["content-type"] # Absent
  /\ SubSeq(res.headers["content-type"][1], 1, 15) = <<"a","p","p","l","i","c","a","t","i","o",
                                                       "n","/","x","m","l">>
  /\ \E urls \in SitemapURLLists : res.body = generateSitemap(urls)

\* what the application would answer GET /robots.txt with
IsRobotsResponse(res) ==
  /\ res.status = 200
  /\ res.headers["content-type"] # Absent
  /\ SubSeq(res.headers["content-type"][1], 1, 10) = <<"t","e","x","t","/","p","l","a","i","n">>
  /\ \E url \in SitemapUrlArguments : res.body = generateRobotsTxt(url)

\* C22: the application answers GET /sitemap.xml with status 200, Content-Type
\* application/xml and the generateSitemap output as body, GET /robots.txt with status
\* 200, Content-Type text/plain and the generateRobotsTxt output as body, and GET /
\* with status 200 and Content-Type text/html.
C22_ThreeRoutes ==
  (Returned("appRequest") /\ input.method = "GET") =>
    /\ input.path = <<"/","s","i","t","e","m","a","p",".","x","m","l">> => IsSitemapResponse(output)
    /\ input.path = <<"/","r","o","b","o","t","s",".","t","x","t">> => IsRobotsResponse(output)
    /\ input.path = <<"/">> =>
         /\ output.status = 200
         /\ output.headers["content-type"] # Absent
         /\ SubSeq(output.headers["content-type"][1], 1, 9) = <<"t","e","x","t","/","h","t","m","l">>

\* C24: for every text and every maxLen, truncateDescription(text, maxLen) returns a
\* string of at most maxLen characters: text unchanged when text.length <= maxLen,
\* otherwise the first maxLen - 3 characters of text followed by "...".
C24_AtMostMaxLen ==
  Returned("truncateDescription") =>
    /\ Len(output) <= input.maxLength
    /\ Len(input.description) <= input.maxLength => output = input.description
    /\ Len(input.description) > input.maxLength =>
         output = SubSeq(input.description, 1, input.maxLength - 3) \o <<".", ".", ".">>

\* C27: the Do Not Track condition of the script produced by generateAnalyticsScript
\* disables Google Analytics for exactly the combinations of navigator.doNotTrack,
\* window.doNotTrack and navigator.msDoNotTrack (each unset, "0", "1" or "yes") for
\* which isDNTEnabled() returns true.
C27_ScriptAgreesWithIsDNTEnabled ==
  Returned("doNotTrack") => (output.gaDisabled <=> output.isDNTEnabled)

(***************************************************************************)
(* Claims about the configurations handed out.                             *)
(***************************************************************************)
\* configuration j as its holder reads it, references followed
ConfigView(h, j) ==
  [h.configs[j] EXCEPT !.meta.keywords = h.objects[@],
                       !.person.location = h.objects[@],
                       !.person.socialProfiles = h.objects[@]]

\* C23: a change made through one returned configuration is never observable through
\* a configuration returned by another call, nor through the module-level constants.
C23_NoSharedMutableState ==
  [][ heap'.via # 0 =>
        /\ heap'.objects = heap.objects
        /\ \A j \in DOMAIN heap.configs \ {heap'.via} :
             ConfigView(heap', j) = ConfigView(heap, j) ]_vars

(***************************************************************************)
(* Claims about the analytics of a page load.                              *)
(***************************************************************************)
\* C25: no gtag event is ever sent at a moment when the browser's Do Not Track
\* signal is enabled, and no initializeAnalytics call registers its click and
\* intersection listeners when Do Not Track is enabled or the measurement ID is
\* empty at that call.
C25_NothingUnderDoNotTrack ==
  /\ \A k \in DOMAIN tracker.sent : ~tracker.sent[k].dntEnabled
  /\ \A i \in DOMAIN tracker.listeners :
       /\ ~tracker.listeners[i].dntAtRegistration
       /\ Len(tracker.listeners[i].measurementId) > 0

\* an event has been sent, and Do Not Track has since been enabled with listeners
\* registered and gtag defined
C25_Witness ==
  /\ tracker.gtag
  /\ isDNTEnabled(tracker.signals)
  /\ Len(tracker.listeners) > 0
  /\ Len(tracker.sent) > 0

OtherTheme(value) == IF value = "light" THEN "dark" ELSE "light"

ThemeClicks == { k \in DOMAIN theme.history : theme.history[k].event = "click" }

\* C29: after any sequence of theme-button clicks and page reloads with at least one
\* click, data-theme equals the localStorage item "theme", the value is "light" or
\* "dark", every click after the first flipped it, every reload after a click
\* preserved it, and the icon is the sun exactly when the theme is "light".
C29_ThemeFollowsStorage ==
  ThemeClicks # {} =>
    /\ theme.page.storage = Some(theme.page.dataTheme)
    /\ theme.page.dataTheme \in {"light", "dark"}
    /\ theme.page.iconClass \in {"fas fa-sun", "fas fa-moon"}
    /\ theme.page.iconClass = "fas fa-sun" <=> theme.page.dataTheme = "light"
    /\ \A k \in DOMAIN theme.history :
         (\E c \in ThemeClicks : c < k) =>
           IF theme.history[k].event = "click"
           THEN theme.history[k].dataTheme = OtherTheme(theme.history[k - 1].dataTheme)
           ELSE theme.history[k].dataTheme = theme.history[k - 1].dataTheme

\* a click to the light theme, a reload and a click back to the dark theme
C29_Witness ==
  /\ Len(theme.history) >= 3
  /\ theme.history[1].event = "click"
  /\ theme.history[2].event = "reload"
  /\ theme.history[3].event = "click"
  /\ theme.page.dataTheme = "dark"

(***************************************************************************)
(* Claims about the counter animation.                                     *)
(***************************************************************************)
\* the number an element's text starts with
ShownNumber(text) ==
  CHOOSE n \in 0..(2 * MaxTarget + 2) :
    \E tail \in {<< >>, <<"+">>, <<"t","h">>} : text = NatToString(n) \o tail

CounterStopped(e) ==
  /\ Len(counter[e].timers) > 0
  /\ \A k \in DOMAIN counter[e].timers : ~counter[e].timers[k].active

CounterSuffix(e) ==
  IF counter[e].dataSuffix = Absent THEN <<"+">> ELSE counter[e].dataSuffix[1]

IsPrefix(s, t) == Len(s) <= Len(t) /\ s = SubSeq(t, 1, Len(s))

\* C30: at every timer step 0 <= charIndex <= length of the current phrase and the
\* text shown is a prefix of the current phrase; phraseIndex changes only in a step
\* that deletes the phrase down to zero characters, and then advances by one modulo
\* the number of phrases; and every phrase is shown in full again and again.
C30_TypewriterCycles ==
  /\ [](/\ typewriter.phraseIndex \in 0..(Len(phrases) - 1)
        /\ typewriter.charIndex >= 0
        /\ typewriter.charIndex <= Len(phrases[typewriter.phraseIndex + 1])
        /\ IsPrefix(typewriter.textContent, phrases[typewriter.phraseIndex + 1]))
  /\ [][typewriter'.phraseIndex # typewriter.phraseIndex =>
          /\ typewriter.isDeleting
          /\ typewriter'.charIndex = 0
          /\ typewriter'.textContent = << >>
          /\ typewriter'.phraseIndex = (typewriter.phraseIndex + 1) % Len(phrases)]_vars
  /\ \A i \in DOMAIN phrases :
       []<>(typewriter.phraseIndex = i - 1 /\ typewriter.textContent = phrases[i])

\* the last phrase has been typed and deleted and the loop is back at the first
C30_Witness ==
  /\ typewriter.phraseIndex = 0
  /\ typewriter.charIndex = 0
  /\ typewriter.delay = 500
====
